---- MODULE Spec2Model ----
(***************************************************************************)
(* A model of lib/Sema/CodeSynthesis.cpp: the synthesis of accessors,      *)
(* materializeForSet, observing and lazy accessors, implicit constructors  *)
(* and destructors.                                                        *)
(*                                                                         *)
(* Several specifications share the module, one per family of operations:  *)
(*   Spec         accessor synthesis on one variable (the declaration      *)
(*                arena: the variable, its accessors, the member list of   *)
(*                its scope, the call stack of maybeAddAccessorsToVariable)*)
(*   SpecObs      execution of the setter body that                        *)
(*                synthesizeObservingAccessors builds                      *)
(*   SpecLazySeq  execution of the lazy getter body by one context         *)
(*   SpecLazyConc execution of the lazy getter body by several contexts    *)
(*   SpecInit     createImplicitConstructor                                *)
(*   SpecOverride createDesignatedInitOverride                             *)
(*   SpecRef      buildStorageReference                                    *)
(*   SpecDtor     addImplicitDestructor                                    *)
(*   SpecCopy     the setter of an @NSCopying property                     *)
(*   SpecIndex    index parameters of subscript accessors                  *)
(* Each specification keeps the variables of the others at their idle      *)
(* values.                                                                 *)
(***************************************************************************)
EXTENDS Integers, Sequences, FiniteSets, TLC

VARIABLES
  var,        \* the subject VarDecl: attributes, storage kind, accessors
  members,    \* member list of the nominal type / extension declaring var
  derived,    \* derived declarations of the file unit (global variables)
  backing,    \* the hidden storage VarDecls created for a lazy property
  externals,  \* ASTContext external definitions (addExternalDecl)
  diags,      \* diagnostics emitted by TC.diagnose
  stack,      \* frames of maybeAddAccessorsToVariable calls in progress
  lastExit,   \* source line of the return most recently taken by it
  requests,   \* outermost calls of maybeAddAccessorsToVariable made
  lazyCalls,  \* calls of completeLazyVarImplementation made
  crashed,    \* the process aborted (null dereference, failed cast)
  obs,        \* SpecObs: observed property and the running setter
  lz,         \* SpecLazy*: lazy property and the running accessors
  mw,         \* SpecInit: struct and the constructor built for it
  ov,         \* SpecOverride: superclass initializer and the override
  aux         \* SpecRef, SpecDtor, SpecCopy: inputs and result of one call

accVars == <<var, members, derived, backing, externals, diags, stack,
             lastExit, requests, lazyCalls, crashed>>
vars == <<var, members, derived, backing, externals, diags, stack,
          lastExit, requests, lazyCalls, crashed, obs, lz, mw, ov, aux>>

\* ------------------------------------------------------------------ bounds
\* At most this many of a variable's optional attributes are set at once.
MaxFlags == 2
\* Nesting depth of maybeAddAccessorsToVariable requests.
MaxDepth == 2
\* Calls of completeLazyVarImplementation on the variable.
MaxLazyCalls == 2
\* Outermost calls of maybeAddAccessorsToVariable on the variable.
MaxRequests == 2

\* ------------------------------------------------------- declaration model
NoDecl == [kind |-> "none"]

\* The declaration contexts a variable can live in.
\*   kind:  file (SourceFile), func (local), struct, class, enum, protocol
\*   ext:   the context is an extension of the nominal type
\*   clang: the nominal type has a Clang node (imported)
\*   objc:  the protocol is @objc
\*   sil:   the parent source file is a SIL file
\*   fixed: the nominal type has fixed layout (NominalTypeDecl::
\*          hasFixedLayout); at file scope, the global variable has
Ctx(k, e, c, o, s, f) ==
  [kind |-> k, ext |-> e, clang |-> c, objc |-> o, sil |-> s, fixed |-> f]

Contexts ==
  { Ctx("file", FALSE, FALSE, FALSE, FALSE, FALSE),
    Ctx("file", FALSE, FALSE, FALSE, FALSE, TRUE),
    Ctx("file", FALSE, FALSE, FALSE, TRUE, FALSE),
    Ctx("func", FALSE, FALSE, FALSE, FALSE, FALSE) }
  \cup
  { Ctx(c[1], c[2], c[3], c[4], c[5], fixed) :
      c \in { <<"struct", FALSE, FALSE, FALSE, FALSE>>,
               <<"struct", FALSE, TRUE, FALSE, FALSE>>,
               <<"struct", FALSE, FALSE, FALSE, TRUE>>,
               <<"class", FALSE, FALSE, FALSE, FALSE>>,
               <<"class", TRUE, FALSE, FALSE, FALSE>>,
               <<"enum", FALSE, FALSE, FALSE, FALSE>>,
               <<"protocol", FALSE, FALSE, FALSE, FALSE>>,
               <<"protocol", FALSE, FALSE, TRUE, FALSE>>,
               <<"protocol", TRUE, FALSE, FALSE, FALSE>> },
      fixed \in BOOLEAN }

NominalKinds == {"struct", "class", "enum", "protocol"}

\* DeclContext::isTypeContext
isTypeContext(ctx) == ctx.kind \in NominalKinds
\* DeclContext::isNominalTypeOrNominalTypeExtensionContext (non-null)
isNominalTypeOrNominalTypeExtensionContext(ctx) == ctx.kind \in NominalKinds
\* dyn_cast<NominalTypeDecl>(DC): the context is the nominal type itself
isNominalTypeDecl(ctx) == ctx.kind \in NominalKinds /\ ~ctx.ext
isExtensionDecl(ctx) == ctx.kind \in NominalKinds /\ ctx.ext
isLocalContext(ctx) == ctx.kind = "func"
isClassOrClassExtensionContext(ctx) == ctx.kind = "class"
isProtocolOrProtocolExtensionContext(ctx) == ctx.kind = "protocol"
isProtocolExtensionContext(ctx) == ctx.kind = "protocol" /\ ctx.ext

\* AbstractStorageDecl::hasAccessorFunctions
hasAccessorFunctions(v) == v.kind \notin {"Stored", "Addressed"}

BoolToNat(b) == IF b THEN 1 ELSE 0

Count(x, s) == Cardinality({i \in 1..Len(s) : s[i] = x})

\* ------------------------------------------------------------ expressions
\* The value of the accessor parameter named n.
ParamRef(n) == [e |-> "param", name |-> n]
\* A local temporary of the accessor body.
TmpRef(n) == [e |-> "tmp", name |-> n]

\* buildSelfReference: DeclRefExpr(self) for Peer, SuperRefExpr for Super.
buildSelfReference(selfAccessKind) ==
  IF selfAccessKind = "Peer" THEN "self" ELSE "super"

\* The expression node built around the base: SubscriptExpr for a
\* SubscriptDecl, MemberRefExpr for a variable (lines 538-549).
storageReferenceForm(target) ==
  IF target = "subscript" THEN "subscript" ELSE "member"

\* Faulty variant of buildStorageReference: super is used whenever it was
\* requested, without testing that the storage overrides anything.
buildStorageReferenceSuperUnchecked(hasSelf, target, overridden, semantics, selfAccessKind) ==
  IF ~hasSelf
  THEN [e |-> "storage", form |-> "declref", base |-> "none",
        target |-> target, ancestor |-> FALSE, semantics |-> semantics]
  ELSE IF selfAccessKind = "Super"
       THEN [e |-> "storage", form |-> storageReferenceForm(target),
             base |-> buildSelfReference("Super"),
             target |-> target, ancestor |-> TRUE, semantics |-> "Ordinary"]
       ELSE [e |-> "storage", form |-> storageReferenceForm(target),
             base |-> buildSelfReference("Peer"),
             target |-> target, ancestor |-> FALSE, semantics |-> semantics]

\* buildStorageReference: an l-value for `target` from inside an accessor.
\*   hasSelf: the accessor has an implicit self parameter
\*   overridden: the storage overrides a declaration of a superclass
\*   ancestor (result): the reference is re-targeted to the overridden decl
buildStorageReference(hasSelf, target, overridden, semantics, selfAccessKind) ==
  IF ~hasSelf
  THEN [e |-> "storage", form |-> "declref", base |-> "none",
        target |-> target, ancestor |-> FALSE, semantics |-> semantics]
  ELSE IF selfAccessKind = "Super" /\ overridden
       THEN [e |-> "storage", form |-> storageReferenceForm(target),
             base |-> buildSelfReference("Super"),
             target |-> target, ancestor |-> TRUE, semantics |-> "Ordinary"]
       ELSE [e |-> "storage", form |-> storageReferenceForm(target),
             base |-> buildSelfReference("Peer"),
             target |-> target, ancestor |-> FALSE, semantics |-> semantics]

\* createPropertyLoadOrCallSuperclassGetter
createPropertyLoadOrCallSuperclassGetter(hasSelf, target, overridden) ==
  buildStorageReference(hasSelf, target, overridden, "DirectToStorage", "Super")

\* createPropertyStoreOrCallSuperclassSetter, lines 679-688: the statements
\* pushed onto the body.  `value` is the expression stored, after lines
\* 674-677 replaced it for an @NSCopying property (valueToStore below).
createPropertyStoreOrCallSuperclassSetter(hasSelf, value, target, overridden) ==
  << [op |-> "assign",
      dest |-> buildStorageReference(hasSelf, target, overridden,
                                     "DirectToStorage", "Super"),
      src |-> value] >>

\* ------------------------------------------------------ accessor prototypes
\* createGetterPrototype: an implicit getter without a body, mutating when
\* the storage's getter is (storage->isGetterMutating(), lines 152-153).
createGetterPrototype(v) ==
  [kind |-> "getter", implicit |-> TRUE, hasSelf |-> isTypeContext(v.ctx),
   mutating |-> v.getterMutating, final |-> v.final, static |-> v.isStatic,
   nonMutatingAttr |-> FALSE, hasBody |-> FALSE, body |-> << >>,
   transparent |-> FALSE, access |-> "unset"]

\* createSetterPrototype: an implicit setter (self, value) without a body.
createSetterPrototype(v) ==
  [kind |-> "setter", implicit |-> TRUE, hasSelf |-> isTypeContext(v.ctx),
   mutating |-> ~v.setterNonMutating, final |-> v.final,
   static |-> v.isStatic, nonMutatingAttr |-> FALSE, hasBody |-> FALSE,
   body |-> << >>, transparent |-> FALSE, access |-> "unset"]

\* needsToBeRegisteredAsExternalDecl: s is the storage declaration.
needsToBeRegisteredAsExternalDecl(s) ==
  \/ s.clang
  \/ isNominalTypeDecl(s.ctx) /\ s.ctx.clang

\* Faulty variant of createMaterializeForSetPrototype: a protocol scope does
\* not force the accessor to be mutating.
createMaterializeForSetPrototypeAsSetter(v, setter) ==
  [kind |-> "materializeForSet", implicit |-> TRUE,
   hasSelf |-> isTypeContext(v.ctx),
   mutating |-> (~setter.nonMutatingAttr /\ ~v.setterNonMutating),
   final |-> v.final, static |-> setter.static, nonMutatingAttr |-> FALSE,
   hasBody |-> FALSE, body |-> << >>, transparent |-> FALSE,
   access |-> "unset"]

\* createMaterializeForSetPrototype, the declaration it returns.  `setter`
\* is storage->getSetter(); the caller supplies the record that a null
\* setter is read as.
createMaterializeForSetPrototype(v, setter) ==
  [kind |-> "materializeForSet", implicit |-> TRUE,
   hasSelf |-> isTypeContext(v.ctx),
   mutating |-> \/ isProtocolOrProtocolExtensionContext(v.ctx)
                \/ (~setter.nonMutatingAttr /\ ~v.setterNonMutating),
   final |-> v.final, static |-> setter.static, nonMutatingAttr |-> FALSE,
   hasBody |-> FALSE, body |-> << >>, transparent |-> FALSE,
   access |-> "unset"]

\* A getter or setter written by the user (a computed property); protocol
\* requirements have no body.
UserAccessor(k, v) ==
  [kind |-> k, implicit |-> FALSE, hasSelf |-> isTypeContext(v.ctx),
   mutating |-> IF k = "setter" THEN ~v.setterNonMutating
                ELSE v.getterMutating,
   final |-> v.final,
   static |-> v.isStatic,
   nonMutatingAttr |-> (k = "setter" /\ v.setterNonMutating),
   hasBody |-> ~(v.ctx.kind = "protocol" /\ ~v.ctx.ext),
   body |-> IF v.ctx.kind = "protocol" /\ ~v.ctx.ext THEN << >>
            ELSE << [op |-> "user"] >>,
   transparent |-> FALSE, access |-> "unset"]

\* ------------------------------------------------- the declaration arena
\* The operations below are functions of the arena record
\*   [var, members, derived, backing, externals, diags].
Arena == [var |-> var, members |-> members, derived |-> derived,
          backing |-> backing, externals |-> externals, diags |-> diags]

\* IterableDeclContext::addMember(D, Hint): D goes right after Hint when a
\* hint is given, and to the end of the list otherwise.  The hint is the
\* declaration the storage holds now (its setter, or the variable itself):
\* among the members of that kind it is the one that joined last.
addMember(ms, D, Hint) ==
  IF Hint # "" /\ \E i \in 1..Len(ms) : ms[i] = Hint
  THEN LET i == CHOOSE j \in 1..Len(ms) :
                  ms[j] = Hint /\ \A k \in (j + 1)..Len(ms) : ms[k] # Hint
       IN SubSeq(ms, 1, i) \o <<D>> \o SubSeq(ms, i + 1, Len(ms))
  ELSE Append(ms, D)

\* addMemberToContextIfNeeded(D, DC, Hint)
addMemberToContextIfNeeded(a, D, Hint) ==
  IF isNominalTypeDecl(a.var.ctx) \/ isExtensionDecl(a.var.ctx)
  THEN [a EXCEPT !.members = addMember(@, D, Hint)]
  ELSE IF a.var.ctx.kind = "file"
       THEN [a EXCEPT !.derived = Append(@, D)]
       ELSE a

\* maybeMarkTransparent: the accessor of a storage declared in a nominal
\* type (or its extension) with fixed layout becomes transparent.
maybeMarkTransparent(acc, s) ==
  IF isNominalTypeOrNominalTypeExtensionContext(s.ctx) /\ s.ctx.fixed
  THEN [acc EXCEPT !.transparent = TRUE]
  ELSE acc

\* TC.Context.addExternalDecl(D) when the storage s asks for it.
registerExternal(a, s, D) ==
  IF needsToBeRegisteredAsExternalDecl(s)
  THEN [a EXCEPT !.externals = Append(@, D)]
  ELSE a

\* synthesizeTrivialGetter(getter, storage): the getter of a.var gets the
\* body `return <storage>`; s is the storage declaration read, target its
\* name.
synthesizeTrivialGetter(a, s, target) ==
  LET g == a.var.getter
      body == << [op |-> "return",
                  value |-> createPropertyLoadOrCallSuperclassGetter(
                              g.hasSelf, target, s.overridden # "none")] >>
      g2 == maybeMarkTransparent([g EXCEPT !.hasBody = TRUE, !.body = body], s)
  IN registerExternal([a EXCEPT !.var.getter = g2], s, "getter")

\* synthesizeTrivialSetter(setter, storage, valueVar)
synthesizeTrivialSetter(a, s, target) ==
  IF s.invalid THEN a
  ELSE LET st == a.var.setter
           body == createPropertyStoreOrCallSuperclassSetter(
                     st.hasSelf, ParamRef("value"), target,
                     s.overridden # "none")
           st2 == maybeMarkTransparent(
                    [st EXCEPT !.hasBody = TRUE, !.body = body], s)
       IN registerExternal([a EXCEPT !.var.setter = st2], s, "setter")

\* Faulty variant of doesStorageNeedSetter: a let gets a setter too.
doesStorageNeedSetterEvenIfLet(v) ==
  IF v.kind = "Stored" THEN TRUE ELSE v.mutableAddressor

\* doesStorageNeedSetter
doesStorageNeedSetter(v) ==
  IF v.kind = "Stored" THEN ~v.isLet ELSE v.mutableAddressor

\* AbstractStorageDecl::addTrivialAccessors
addTrivialAccessors(v, getter, setter) ==
  [v EXCEPT !.getter = getter, !.setter = setter,
            !.materializeForSet = NoDecl,
            !.kind = IF v.kind = "Addressed"
                     THEN "AddressedWithTrivialAccessors"
                     ELSE "StoredWithTrivialAccessors"]

\* AbstractStorageDecl::makeComputed
makeComputed(v, getter, setter) ==
  [v EXCEPT !.getter = getter, !.setter = setter, !.kind = "Computed"]

\* addMaterializeForSet: `setter` is what storage->getSetter() is read as.
addMaterializeForSet(a, setter) ==
  LET m == createMaterializeForSetPrototype(a.var, setter)
      a1 == registerExternal(a, a.var, "materializeForSet")
      a2 == addMemberToContextIfNeeded(
              a1, "materializeForSet",
              IF a.var.setter.kind = "none" THEN "" ELSE "setter")
  IN [a2 EXCEPT !.var.materializeForSet = m]

\* synthesizeMaterializeForSet, line 906: before the type checker is called
\* on the accessor (line 908)
synthesizeMaterializeForSetTransparent(a) ==
  [a EXCEPT !.var.materializeForSet = maybeMarkTransparent(@, a.var)]

\* synthesizeMaterializeForSet, lines 911-912: after that call
synthesizeMaterializeForSetExternal(a) ==
  registerExternal(a, a.var, "materializeForSet")

\* ------------------------------------------ addTrivialAccessorsToStorage
\* The function in the order of its statements, between its calls of the
\* type checker.

\* lines 814-821: install the prototypes, synthesize the getter body
addTrivialInstall(a, getter, setter) ==
  synthesizeTrivialGetter(
    [a EXCEPT !.var = addTrivialAccessors(@, getter, setter)], a.var, "var")

\* lines 825-830: synthesize the setter body
addTrivialSetterBody(a) ==
  IF a.var.setter.kind # "none"
  THEN synthesizeTrivialSetter(a, a.var, "var")
  ELSE a

\* lines 835-841: getter and setter join the context
addTrivialMembers(a) ==
  LET a1 == addMemberToContextIfNeeded(a, "getter", "")
  IN IF a.var.setter.kind # "none"
     THEN addMemberToContextIfNeeded(a1, "setter", "")
     ELSE a1

\* line 849: a stored property of a nominal type with a setter gets a
\* materializeForSet
trivialNeedsMaterializeForSet(v) ==
  v.setter.kind # "none" /\ isNominalTypeOrNominalTypeExtensionContext(v.ctx)

\* ------------------------------------------------------- lazy properties
\* The hidden storage VarDecl of a lazy property as created at lines
\* 1199-1202: a mutable, user-inaccessible variable of the same context.
LazyStorageDecl(v) ==
  [name |-> "storage", ctx |-> v.ctx, isLet |-> FALSE,
   userAccessible |-> FALSE, implicit |-> FALSE, final |-> FALSE,
   access |-> "unset", setterAccess |-> "unset", invalid |-> FALSE,
   clang |-> FALSE, overridden |-> "none"]

\* Faulty variant of completeLazyPropertyGetterBody: no early return, the
\* initializer is evaluated by every read.
completeLazyPropertyGetterBodyNoEarlyReturn(hasSelf, initPresent) ==
  << [op |-> "let", name |-> "tmp1",
      value |-> createPropertyLoadOrCallSuperclassGetter(
                  hasSelf, "storage", FALSE)],
     [op |-> "vardecl", name |-> "tmp1"],
     [op |-> "let", name |-> "tmp2",
      value |-> [e |-> "initializer", present |-> initPresent]],
     [op |-> "vardecl", name |-> "tmp2"] >>
  \o createPropertyStoreOrCallSuperclassSetter(
       hasSelf, TmpRef("tmp2"), "storage", FALSE)
  \o << [op |-> "return", value |-> TmpRef("tmp2")] >>

\* Faulty variant of completeLazyPropertyGetterBody: the read that initializes
\* returns what the storage holds at the end, not its own tmp2.
completeLazyPropertyGetterBodyReturnStorage(hasSelf, initPresent) ==
  << [op |-> "let", name |-> "tmp1",
      value |-> createPropertyLoadOrCallSuperclassGetter(
                  hasSelf, "storage", FALSE)],
     [op |-> "vardecl", name |-> "tmp1"],
     [op |-> "if_return", cond |-> TmpRef("tmp1"),
      value |-> [e |-> "force", of |-> TmpRef("tmp1")]],
     [op |-> "let", name |-> "tmp2",
      value |-> [e |-> "initializer", present |-> initPresent]],
     [op |-> "vardecl", name |-> "tmp2"] >>
  \o createPropertyStoreOrCallSuperclassSetter(
       hasSelf, TmpRef("tmp2"), "storage", FALSE)
  \o << [op |-> "return",
         value |-> createPropertyLoadOrCallSuperclassGetter(
                     hasSelf, "storage", FALSE)] >>

\* completeLazyPropertyGetter: the body
\*   let tmp1 = storage; if tmp1 { return tmp1! }
\*   let tmp2 : Ty = <initializer>; storage = tmp2; return tmp2
\* initPresent: VD->getParentInitializer() is not null.
completeLazyPropertyGetterBody(hasSelf, initPresent) ==
  << [op |-> "let", name |-> "tmp1",
      value |-> createPropertyLoadOrCallSuperclassGetter(
                  hasSelf, "storage", FALSE)],
     [op |-> "vardecl", name |-> "tmp1"],
     [op |-> "if_return", cond |-> TmpRef("tmp1"),
      value |-> [e |-> "force", of |-> TmpRef("tmp1")]],
     [op |-> "let", name |-> "tmp2",
      value |-> [e |-> "initializer", present |-> initPresent]],
     [op |-> "vardecl", name |-> "tmp2"] >>
  \o createPropertyStoreOrCallSuperclassSetter(
       hasSelf, TmpRef("tmp2"), "storage", FALSE)
  \o << [op |-> "return", value |-> TmpRef("tmp2")] >>

\* completeLazyVarImplementation, lines 1193-1217: the storage and its
\* pattern binding join the context, the storage next to the variable.
lazyAddStorage(a) ==
  LET a1 == [a EXCEPT !.backing = Append(@, LazyStorageDecl(a.var))]
      a2 == addMemberToContextIfNeeded(a1, "storage", "var")
  IN addMemberToContextIfNeeded(a2, "storage.pbd", "")

\* line 1220: completeLazyPropertyGetter gives the getter its body and takes
\* the initializer out of the pattern binding.
lazyGetterBody(a) ==
  [a EXCEPT !.var.getter.hasBody = TRUE,
            !.var.getter.body = completeLazyPropertyGetterBody(
                                  a.var.getter.hasSelf, a.var.parentInit),
            !.var.parentInit = FALSE]

\* Faulty variant of lazyStorageAttributes: the storage is not made final.
lazyStorageAttributesNotFinal(st, ctx) ==
  [st EXCEPT !.implicit = TRUE, !.access = "private",
             !.setterAccess = "private"]

\* lines 1235-1239: the storage becomes final (in a class), implicit and
\* private.
lazyStorageAttributes(st, ctx) ==
  [st EXCEPT !.final = isClassOrClassExtensionContext(ctx),
             !.implicit = TRUE, !.access = "private",
             !.setterAccess = "private"]

\* lines 1223-1239: the setter body, then the attributes of the storage.
lazySetterAndAttributes(a) ==
  LET n == Len(a.backing)
      st == a.backing[n]
      a2 == synthesizeTrivialSetter(a, st, "storage")
  IN [a2 EXCEPT !.backing[n] = lazyStorageAttributes(st, a.var.ctx)]

\* lines 1220-1245: the getter body, the setter body, the attributes of the
\* storage.
lazyComplete(a) == lazySetterAndAttributes(lazyGetterBody(a))

\* ------------------------------------------------ maybeAddMaterializeForSet
\* Faulty variant of maybeAddMaterializeForSetDecision: structs are treated like
\* enums.
maybeAddMaterializeForSetDecisionNoStructs(v) ==
  CASE v.materializeForSet.kind # "none" -> 1257
    [] v.setter.kind = "none" -> 1260
    [] v.invalid -> 1263
    [] ~isNominalTypeOrNominalTypeExtensionContext(v.ctx) -> 1268
    [] OTHER ->
  CASE v.ctx.kind = "protocol" ->
         (CASE v.ctx.objc -> 1272
            [] isProtocolExtensionContext(v.ctx) -> 1273
            [] OTHER -> 1296)
    [] v.ctx.kind = "class" ->
         (IF v.final /\ v.overridden # "withMFS" THEN 1281 ELSE 1296)
    [] OTHER -> 1286

\* Lines 1257-1296: the line at which maybeAddMaterializeForSet returns
\* early, or 1296 when it reaches addMaterializeForSet.
maybeAddMaterializeForSetDecision(v) ==
  CASE v.materializeForSet.kind # "none" -> 1257
    [] v.setter.kind = "none" -> 1260
    [] v.invalid -> 1263
    [] ~isNominalTypeOrNominalTypeExtensionContext(v.ctx) -> 1268
    [] OTHER ->
  CASE v.ctx.kind = "protocol" ->
         (CASE v.ctx.objc -> 1272
            [] isProtocolExtensionContext(v.ctx) -> 1273
            [] OTHER -> 1296)
    [] v.ctx.kind = "class" ->
         (IF v.final /\ v.overridden # "withMFS" THEN 1281 ELSE 1296)
    [] v.ctx.kind = "enum" -> 1286
    [] OTHER -> (IF v.ctx.clang THEN 1293 ELSE 1296)

materializeForSetWanted(v) == maybeAddMaterializeForSetDecision(v) = 1296

\* ------------------------------------------- convertStoredVarInProtocol...
convertStoredVarInProtocolToComputed(a) ==
  addMemberToContextIfNeeded(
    [a EXCEPT !.var = makeComputed(@, createGetterPrototype(a.var), NoDecl)],
    "getter", "")

\* convertNSManagedStoredVarToComputed, lines 1027-1034
convertNSManagedInstall(a, getter, setter) ==
  [a EXCEPT !.var = makeComputed(@, getter, setter)]

\* lines 1041-1042
convertNSManagedMembers(a) ==
  addMemberToContextIfNeeded(
    addMemberToContextIfNeeded(a, "getter", ""), "setter", "")

\* ------------------------------------------------------------ Init (Spec)
\* The optional attributes of a variable; a variable of the model carries at
\* most MaxFlags of them.
Flags == {"lazy", "nsmanaged", "implicit", "final", "static", "invalid",
          "clang", "setterNonMutating", "getterMutating", "hasInit",
          "overridden", "overriddenMFS"}

\* Storage kinds a variable starts with: stored, addressed (with or without
\* a mutable addressor), computed by the user (get, or get and set), and
\* computed with a getter and a mutable addressor, whose setter is an
\* implicit declaration without a body yet.
Kinds0 == {"Stored", "AddressedRO", "AddressedRW", "ComputedRO", "ComputedRW",
           "ComputedWithMutableAddress"}

MakeVar(ctx, isLet, k0, F) ==
  LET v0 == [ctx |-> ctx, isLet |-> isLet, declared |-> k0,
             lazy |-> "lazy" \in F, nsmanaged |-> "nsmanaged" \in F,
             implicit |-> "implicit" \in F, final |-> "final" \in F,
             isStatic |-> "static" \in F, invalid |-> "invalid" \in F,
             clang |-> "clang" \in F,
             setterNonMutating |-> "setterNonMutating" \in F,
             getterMutating |-> "getterMutating" \in F,
             hasInit |-> ("hasInit" \in F \/ "lazy" \in F),
             parentInit |-> ("hasInit" \in F \/ "lazy" \in F),
             overridden |-> IF "overriddenMFS" \in F THEN "withMFS"
                            ELSE IF "overridden" \in F THEN "plain"
                            ELSE "none",
             kind |-> CASE k0 \in {"AddressedRO", "AddressedRW"} -> "Addressed"
                        [] k0 \in {"ComputedRO", "ComputedRW"} -> "Computed"
                        [] k0 = "ComputedWithMutableAddress" -> k0
                        [] OTHER -> "Stored",
             mutableAddressor |-> (k0 \in {"AddressedRW",
                                           "ComputedWithMutableAddress"}),
             getter |-> NoDecl, setter |-> NoDecl,
             materializeForSet |-> NoDecl,
             beingTypeChecked |-> FALSE]
  IN [v0 EXCEPT
        !.getter = IF k0 \in {"ComputedRO", "ComputedRW",
                                  "ComputedWithMutableAddress"}
                   THEN UserAccessor("getter", v0) ELSE NoDecl,
        !.setter = CASE k0 = "ComputedRW" -> UserAccessor("setter", v0)
                     [] k0 = "ComputedWithMutableAddress" ->
                          createSetterPrototype(v0)
                     [] OTHER -> NoDecl]

\* The combinations the front end lets through to synthesis.
WellFormedVar(ctx, isLet, k0, F) ==
  LET stored == k0 = "Stored"
      addressed == k0 \in {"AddressedRO", "AddressedRW",
                           "ComputedWithMutableAddress"}
      settable == (stored /\ ~isLet) \/ k0 \in {"AddressedRW", "ComputedRW",
                                                "ComputedWithMutableAddress"}
  IN
  /\ Cardinality(F) <= MaxFlags
  /\ ~({"overridden", "overriddenMFS"} \subseteq F)
  /\ isLet => stored
  /\ "lazy" \in F =>
       /\ stored /\ ~isLet /\ ctx.kind \in {"struct", "class"} /\ ~ctx.ext
       /\ F \cap {"nsmanaged", "static", "hasInit"} = {}
  /\ "nsmanaged" \in F =>
       /\ stored /\ ~isLet /\ ctx.kind = "class" /\ ~ctx.ext
       /\ F \cap {"static", "hasInit"} = {}
  /\ F \cap {"overridden", "overriddenMFS"} # {} =>
       ctx.kind = "class" /\ ~ctx.ext
  /\ "final" \in F => ctx.kind = "class"
  /\ "static" \in F => isTypeContext(ctx)
  /\ "clang" \in F => ctx.kind \in {"struct", "class", "protocol"} /\ ~ctx.ext
  /\ "setterNonMutating" \in F => settable
  /\ "getterMutating" \in F =>
       /\ ~stored /\ ctx.kind \in {"struct", "enum", "protocol"}
       /\ "static" \notin F
  /\ "hasInit" \in F => stored /\ ctx.kind # "protocol"
  /\ ctx.kind = "enum" => "static" \in F \/ ~stored
  /\ ctx.ext => "static" \in F \/ k0 \in {"ComputedRO", "ComputedRW",
                                           "ComputedWithMutableAddress"}
  /\ ctx.kind = "protocol" => ~addressed
  /\ ctx.kind = "func" => stored /\ F \subseteq {"implicit", "hasInit", "invalid"}
  /\ ctx.kind = "enum" => ~addressed

InitialMembers(v) ==
  IF isTypeContext(v.ctx)
  THEN <<"var">>
       \o (IF v.getter.kind # "none" THEN <<"getter">> ELSE << >>)
       \o (IF v.setter.kind # "none" THEN <<"setter">> ELSE << >>)
       \o <<"other">>
  ELSE << >>

IdleObs == [mode |-> "idle"]
IdleLz == [mode |-> "idle"]
IdleMw == [mode |-> "idle"]
IdleOv == [mode |-> "idle"]
IdleAux == [mode |-> "idle"]

Init ==
  /\ \E ctx \in Contexts, isLet \in BOOLEAN, k0 \in Kinds0, F \in SUBSET Flags :
       /\ WellFormedVar(ctx, isLet, k0, F)
       /\ var = MakeVar(ctx, isLet, k0, F)
  /\ members = InitialMembers(var)
  /\ derived = << >>
  /\ backing = << >>
  /\ externals = << >>
  /\ diags = << >>
  /\ stack = << >>
  /\ lastExit = 0
  /\ requests = 0
  /\ lazyCalls = 0
  /\ crashed = FALSE
  /\ obs = IdleObs /\ lz = IdleLz /\ mw = IdleMw /\ ov = IdleOv /\ aux = IdleAux

\* ----------------------------------------------------------------- actions
SetArena(a) ==
  /\ var' = a.var
  /\ members' = a.members
  /\ derived' = a.derived
  /\ backing' = a.backing
  /\ externals' = a.externals
  /\ diags' = a.diags

Top == stack[Len(stack)]
Pop == SubSeq(stack, 1, Len(stack) - 1)
\* A call in progress: the function called from outside this file (fn), the
\* program point it is at, and the locals getter and setter.
Frame(fn, pc, g, s) == [fn |-> fn, pc |-> pc, getter |-> g, setter |-> s]
Goto(pc) == stack' = [stack EXCEPT ![Len(stack)].pc = pc]
Running(pc) == ~crashed /\ stack # << >> /\ Top.pc = pc
OthersIdle == UNCHANGED <<obs, lz, mw, ov, aux>>

\* The program points at which control is in the type checker
\* (TC.getTypeOfRValue, TC.validateDecl, TC.typeCheckDecl), which may
\* request accessors again.
InTypeChecker ==
  {"lazy_getter", "lazy_setter", "lazy_validateGetter", "lazy_validateSetter",
   "nsm_getter", "nsm_setter", "nsm_validateGetter", "nsm_validateSetter",
   "triv_getter", "triv_setter", "triv_tcGetter", "triv_tcSetter",
   "triv_validateMFS", "triv_synthMFS", "triv_tcMFS",
   "lazyimpl_validateGetter", "lazyimpl_validateSetter",
   "lazyimpl_typeCheck", "addressed_tcSetter", "mfs_validate",
   "proto_getter", "proto_tcGetter"}

\* A request from outside: maybeAddAccessorsToVariable(var) is called.
Request ==
  /\ ~crashed /\ stack = << >>
  /\ requests < MaxRequests
  /\ stack' = << Frame("maybeAddAccessorsToVariable", "entry",
                       NoDecl, NoDecl) >>
  /\ requests' = requests + 1
  /\ UNCHANGED <<var, members, derived, backing, externals, diags, lastExit,
                 lazyCalls, crashed>>
  /\ OthersIdle

\* A recursive request raised by the type checker during synthesis.
Reenter ==
  /\ ~crashed /\ stack # << >> /\ Top.pc \in InTypeChecker
  /\ Len(stack) < MaxDepth
  /\ stack' = Append(stack, Frame("maybeAddAccessorsToVariable", "entry",
                                  NoDecl, NoDecl))
  /\ UNCHANGED <<var, members, derived, backing, externals, diags, lastExit,
                 requests, lazyCalls, crashed>>
  /\ OthersIdle

\* Faulty variant of AlreadyHandled: the in-progress flag is not consulted.
AlreadyHandledIgnoringFlag(v) == v.getter.kind # "none"

\* line 1302: accessors exist or are being synthesized
AlreadyHandled(v) == v.getter.kind # "none" \/ v.beingTypeChecked

\* Lines 1302-1371: the line at which maybeAddAccessorsToVariable returns
\* early, or at which it sets the flag (1313 lazy, 1353 NSManaged, 1371
\* trivial accessors).
maybeAddAccessorsDecision(v) ==
  CASE AlreadyHandled(v) -> 1303
    [] OTHER ->
  CASE isLocalContext(v.ctx) -> 1307
    [] OTHER ->
  CASE v.lazy -> 1313
    [] OTHER ->
  CASE v.implicit -> 1337
    [] OTHER ->
  CASE ~isNominalTypeOrNominalTypeExtensionContext(v.ctx) /\ v.ctx.fixed -> 1343
    [] v.ctx.kind = "protocol" -> 1348
    [] v.ctx.kind = "class" /\ v.nsmanaged -> 1353
    [] v.ctx.kind = "struct" /\ v.ctx.clang -> 1362
    [] OTHER ->
  CASE v.ctx.sil -> 1368
    [] OTHER -> 1371

EarlyExits == {1303, 1307, 1337, 1343, 1348, 1362, 1368}

\* Faulty variant of setIsBeingTypeChecked: the flag is left clear.
setIsBeingTypeCheckedDropped(v) == v

\* var->setIsBeingTypeChecked() at lines 1313, 1353 and 1371
setIsBeingTypeChecked(v) == [v EXCEPT !.beingTypeChecked = TRUE]

\* maybeAddAccessorsToVariable, lines 1302-1371
Entry ==
  /\ Running("entry")
  /\ LET d == maybeAddAccessorsDecision(var) IN
     IF d \in EarlyExits
     THEN /\ stack' = Pop
          /\ lastExit' = d
          /\ UNCHANGED var
     ELSE /\ var' = setIsBeingTypeChecked(var)
          /\ Goto(CASE d = 1313 -> "lazy_getter"
                    [] d = 1353 -> "nsm_getter"
                    [] OTHER -> "triv_getter")
          /\ UNCHANGED lastExit
  /\ UNCHANGED <<members, derived, backing, externals, diags, requests,
                 lazyCalls, crashed>>
  /\ OthersIdle

\* Return from the call on top of the stack at `line` with the arena a.
Return(a, line) ==
  /\ SetArena(a)
  /\ stack' = Pop
  /\ lastExit' = line
  /\ UNCHANGED <<requests, lazyCalls, crashed>>
  /\ OthersIdle

\* Go on to the program point pc with the arena a and the locals g, s.
Step(a, pc, g, s) ==
  /\ SetArena(a)
  /\ stack' = [stack EXCEPT ![Len(stack)] = Frame(Top.fn, pc, g, s)]
  /\ UNCHANGED <<lastExit, requests, lazyCalls, crashed>>
  /\ OthersIdle

\* Faulty variant of ClearFlag: the flag is left set.
ClearFlagForgotten(a) == a

\* var->setIsBeingTypeChecked(false) at lines 1325, 1355 and 1373
ClearFlag(a) == [a EXCEPT !.var.beingTypeChecked = FALSE]

\* The process stops at a failed assertion.
Abort ==
  /\ crashed' = TRUE
  /\ UNCHANGED <<var, members, derived, backing, externals, diags, stack,
                 lastExit, requests, lazyCalls>>
  /\ OthersIdle

\* addTrivialAccessorsToStorage returns to its caller with the arena a:
\* to maybeAddAccessorsToVariable, which clears the flag and returns (lines
\* 1373-1374), or to synthesizeWitnessAccessorsForStorage, which returns
\* (line 884; line 898 on its materializeForSet path, which has no getter
\* and setter locals).
TrivReturn(a) ==
  IF Top.fn = "maybeAddAccessorsToVariable"
  THEN Return(ClearFlag(a), 1374)
  ELSE Return(a, IF Top.getter = NoDecl THEN 898 ELSE 884)

\* lines 1315-1319: the getter of a lazy property is mutating outside classes
LazyGetter ==
  /\ Running("lazy_getter")
  /\ Step(Arena, "lazy_setter",
          [createGetterPrototype(var) EXCEPT
             !.mutating = ~isClassOrClassExtensionContext(var.ctx),
             !.access = "formal"],
          NoDecl)

\* lines 1321-1325: the setter, makeComputed, the flag is cleared
LazySetter ==
  /\ Running("lazy_setter")
  /\ Step(ClearFlag([Arena EXCEPT
                       !.var = makeComputed(@, Top.getter,
                                            createSetterPrototype(var))]),
          "lazy_validateGetter", Top.getter, createSetterPrototype(var))

\* line 1327 returns, line 1328 is entered
LazyValidateGetter ==
  /\ Running("lazy_validateGetter")
  /\ Step(Arena, "lazy_validateSetter", Top.getter, Top.setter)

\* lines 1330-1332
LazyFinish ==
  /\ Running("lazy_validateSetter")
  /\ Return(addMemberToContextIfNeeded(
              addMemberToContextIfNeeded(Arena, "getter", ""), "setter", ""),
            1332)

\* convertNSManagedStoredVarToComputed, line 1027
NsmGetter ==
  /\ Running("nsm_getter")
  /\ Step(Arena, "nsm_setter", createGetterPrototype(var), NoDecl)

\* lines 1031-1034
NsmSetter ==
  /\ Running("nsm_setter")
  /\ Step(convertNSManagedInstall(Arena, Top.getter, createSetterPrototype(var)),
          "nsm_validateGetter", Top.getter, createSetterPrototype(var))

\* line 1036 returns, line 1037 is entered
NsmValidateGetter ==
  /\ Running("nsm_validateGetter")
  /\ Step(Arena, "nsm_validateSetter", Top.getter, Top.setter)

\* lines 1041-1042, then 1355-1356
NsmFinish ==
  /\ Running("nsm_validateSetter")
  /\ Return(ClearFlag(convertNSManagedMembers(Arena)), 1356)

\* addTrivialAccessorsToStorage from the return of line 804 (the getter
\* prototype is built from the storage as it is then) and line 809, given
\* the answer of doesStorageNeedSetter; without a setter also 814-821.
TrivGetterWith(need) ==
  IF need
  THEN Step(Arena, "triv_setter", createGetterPrototype(var), NoDecl)
  ELSE Step(addTrivialInstall(Arena, createGetterPrototype(var), NoDecl),
            "triv_tcGetter", createGetterPrototype(var), NoDecl)

\* addTrivialAccessorsToStorage, lines 804-821.  When accessors were
\* synthesized while the type checker had control (a request raised during
\* line 82, possible on the witness path, where the flag is not set), the
\* storage is no longer Stored or Addressed at line 809: a build with
\* assertions aborts at line 758; a build without them passes lines 758
\* and 801, reaches llvm_unreachable (line 775 or 778), whose behaviour is
\* undefined, and runs on with either answer.
TrivGetter ==
  /\ Running("triv_getter")
  /\ IF hasAccessorFunctions(var)
     THEN \/ Abort
          \/ \E need \in BOOLEAN : TrivGetterWith(need)
     ELSE TrivGetterWith(doesStorageNeedSetter(var))

\* lines 810-821
TrivSetterInstall ==
  Step(addTrivialInstall(Arena, Top.getter, createSetterPrototype(var)),
       "triv_tcGetter", Top.getter, createSetterPrototype(var))

\* lines 810-821.  AbstractStorageDecl::addTrivialAccessors (line 814)
\* asserts that the storage is still Stored or Addressed: a build with
\* assertions aborts, a build without them installs the accessors over the
\* ones the storage has.
TrivSetter ==
  /\ Running("triv_setter")
  /\ IF hasAccessorFunctions(var)
     THEN Abort \/ TrivSetterInstall
     ELSE TrivSetterInstall

\* lines 822-830; without a setter the function runs to its end
TrivTcGetter ==
  /\ Running("triv_tcGetter")
  /\ IF var.setter.kind # "none"
     THEN Step(addTrivialSetterBody(Arena), "triv_tcSetter",
               Top.getter, Top.setter)
     ELSE TrivReturn(addTrivialMembers(Arena))

\* lines 831-850
TrivTcSetter ==
  /\ Running("triv_tcSetter")
  /\ LET a == addTrivialMembers(Arena) IN
     IF trivialNeedsMaterializeForSet(a.var)
     THEN Step(addMaterializeForSet(a, a.var.setter), "triv_validateMFS",
               Top.getter, Top.setter)
     ELSE TrivReturn(a)

\* line 793 returns (addMaterializeForSet); synthesizeMaterializeForSet up
\* to its call of the type checker, line 908
TrivValidateMFS ==
  /\ Running("triv_validateMFS")
  /\ Step(synthesizeMaterializeForSetTransparent(Arena), "triv_synthMFS",
          Top.getter, Top.setter)

\* line 908 returns, lines 911-912, then line 852 (896 on the witness path)
TrivSynthMFS ==
  /\ Running("triv_synthMFS")
  /\ Step(synthesizeMaterializeForSetExternal(Arena), "triv_tcMFS",
          Top.getter, Top.setter)

\* line 852 (896) returns, and the caller with it
TrivTcMFS ==
  /\ Running("triv_tcMFS")
  /\ TrivReturn(Arena)

\* ------------------------------------------------- the other entry points
Quiet == ~crashed /\ stack = << >>

\* TypeChecker::completeLazyVarImplementation(var), lines 1188-1217 and
\* the call of validateDecl on the getter (line 1095).  Its assertions are
\* the guard.  The storage and its pattern binding join the context.
CompleteLazy ==
  /\ Quiet
  /\ var.lazy /\ var.kind = "Computed" /\ ~var.isStatic
  /\ lazyCalls < MaxLazyCalls
  /\ SetArena(lazyAddStorage(Arena))
  /\ stack' = << Frame("completeLazyVarImplementation",
                       "lazyimpl_validateGetter", var.getter, var.setter) >>
  /\ lazyCalls' = lazyCalls + 1
  /\ UNCHANGED <<lastExit, requests, crashed>>
  /\ OthersIdle

\* lines 1097-1181 and the call of validateDecl on the setter (line 1226).
\* When the initializer was already taken out of the pattern binding (a
\* second call), line 1154 calls walk() on a null expression: the process
\* aborts there, or runs on and builds the body around the null initializer.
CompleteLazyGetter ==
  /\ Running("lazyimpl_validateGetter")
  /\ \E abort \in BOOLEAN :
       /\ abort => ~var.parentInit
       /\ IF abort
          THEN /\ crashed' = TRUE
               /\ UNCHANGED <<var, members, derived, backing, externals,
                              diags, stack>>
          ELSE /\ SetArena(lazyGetterBody(Arena))
               /\ Goto("lazyimpl_validateSetter")
               /\ UNCHANGED crashed
  /\ UNCHANGED <<lastExit, requests, lazyCalls>>
  /\ OthersIdle

\* line 1226 returns; lines 1227-1239 give the setter its body and the
\* storage its attributes; the type checker is called on the getter and
\* the setter (lines 1241-1245)
CompleteLazySetter ==
  /\ Running("lazyimpl_validateSetter")
  /\ Step(lazySetterAndAttributes(Arena), "lazyimpl_typeCheck",
          Top.getter, Top.setter)

\* lines 1241-1245 return, line 1246
CompleteLazyFinish ==
  /\ Running("lazyimpl_typeCheck")
  /\ Return(Arena, 1246)

\* swift::maybeAddMaterializeForSet(var), lines 1251-1296: an early
\* return, or addMaterializeForSet (line 1296) up to its call of
\* validateDecl (line 793), the accessor being attached (lines 787-789).
MaybeAddMaterializeForSet ==
  /\ Quiet
  /\ hasAccessorFunctions(var)
  /\ IF materializeForSetWanted(var)
     THEN /\ SetArena(addMaterializeForSet(Arena, var.setter))
          /\ stack' = << Frame("maybeAddMaterializeForSet",
                               "mfs_validate", NoDecl, NoDecl) >>
          /\ UNCHANGED lastExit
     ELSE /\ lastExit' = maybeAddMaterializeForSetDecision(var)
          /\ UNCHANGED <<var, members, derived, backing, externals, diags,
                         stack>>
  /\ UNCHANGED <<requests, lazyCalls, crashed>>
  /\ OthersIdle

\* line 793 returns, and addMaterializeForSet and its caller with it
MaybeAddMaterializeForSetFinish ==
  /\ Running("mfs_validate")
  /\ Return(Arena, 1296)

\* TypeChecker::synthesizeWitnessAccessorsForStorage(requirement, var),
\* lines 877-899: the requirement is @objc or not, settable or not; the
\* context of the storage is not consulted.  A storage without accessors
\* enters addTrivialAccessorsToStorage (line 883), the flag of the variable
\* staying clear; a storage with accessors that needs a materializeForSet
\* runs addMaterializeForSet (line 894) up to its call of validateDecl
\* (line 793); any other storage is left alone (line 898).  A storage with
\* accessors and no setter that witnesses a settable requirement reaches
\* createMaterializeForSetPrototype with a null setter, which is
\* dereferenced at line 336: the process dies there, before anything is
\* attached.
SynthesizeWitnessAccessors ==
  /\ Quiet
  /\ \E reqObjC \in BOOLEAN, reqSetter \in BOOLEAN :
       IF ~hasAccessorFunctions(var)
       THEN /\ stack' = << Frame("synthesizeWitnessAccessorsForStorage",
                                 "triv_getter", NoDecl, NoDecl) >>
            /\ UNCHANGED <<var, members, derived, backing, externals, diags,
                           crashed, lastExit>>
       ELSE IF ~reqObjC /\ reqSetter /\ var.materializeForSet.kind = "none"
       THEN IF var.setter.kind = "none"
            THEN /\ crashed' = TRUE
                 /\ stack' = << Frame("synthesizeWitnessAccessorsForStorage",
                                      "createMaterializeForSetPrototype",
                                      NoDecl, NoDecl) >>
                 /\ UNCHANGED <<var, members, derived, backing, externals,
                                diags, lastExit>>
            ELSE /\ SetArena(addMaterializeForSet(Arena, var.setter))
                 /\ stack' = << Frame("synthesizeWitnessAccessorsForStorage",
                                      "triv_validateMFS", NoDecl, NoDecl) >>
                 /\ UNCHANGED <<crashed, lastExit>>
       ELSE /\ lastExit' = 898
            /\ UNCHANGED <<var, members, derived, backing, externals, diags,
                           crashed, stack>>
  /\ UNCHANGED <<requests, lazyCalls>>
  /\ OthersIdle

\* swift::synthesizeSetterForMutableAddressedStorage(var), lines 861-869:
\* its assertions are the guard; the setter gets its body and the type
\* checker is called on it.
SynthesizeSetterForMutableAddressedStorage ==
  /\ Quiet
  /\ var.kind = "ComputedWithMutableAddress"
  /\ var.setter.kind # "none" /\ ~var.setter.hasBody
  /\ SetArena(synthesizeTrivialSetter(Arena, var, "var"))
  /\ stack' = << Frame("synthesizeSetterForMutableAddressedStorage",
                       "addressed_tcSetter", var.getter, var.setter) >>
  /\ UNCHANGED <<lastExit, requests, lazyCalls, crashed>>
  /\ OthersIdle

\* lines 870-871 return, line 872
SynthesizeSetterForMutableAddressedStorageFinish ==
  /\ Running("addressed_tcSetter")
  /\ Return(Arena, 872)

\* swift::convertStoredVarInProtocolToComputed(var): a stored variable
\* declared in a protocol.  Line 376 enters createGetterPrototype, which
\* asks the type checker for the type of the variable (line 82).
ConvertStoredVarInProtocol ==
  /\ Quiet
  /\ var.ctx.kind = "protocol" /\ var.kind = "Stored"
  /\ stack' = << Frame("convertStoredVarInProtocolToComputed",
                       "proto_getter", NoDecl, NoDecl) >>
  /\ UNCHANGED <<var, members, derived, backing, externals, diags, lastExit,
                 requests, lazyCalls, crashed>>
  /\ OthersIdle

\* line 376 returns; lines 379-383 make the variable computed and add the
\* getter to the protocol; the type checker is called on it (lines 386-387)
ConvertStoredVarInProtocolInstall ==
  /\ Running("proto_getter")
  /\ Step(convertStoredVarInProtocolToComputed(Arena), "proto_tcGetter",
          createGetterPrototype(var), NoDecl)

\* lines 386-387 return, line 388
ConvertStoredVarInProtocolFinish ==
  /\ Running("proto_tcGetter")
  /\ Return(Arena, 388)

Next ==
  \/ Request \/ Reenter \/ Entry
  \/ LazyGetter \/ LazySetter \/ LazyValidateGetter \/ LazyFinish
  \/ NsmGetter \/ NsmSetter \/ NsmValidateGetter \/ NsmFinish
  \/ TrivGetter \/ TrivSetter \/ TrivTcGetter \/ TrivTcSetter
  \/ TrivValidateMFS \/ TrivSynthMFS \/ TrivTcMFS
  \/ CompleteLazy \/ CompleteLazyGetter \/ CompleteLazySetter
  \/ CompleteLazyFinish
  \/ MaybeAddMaterializeForSet \/ MaybeAddMaterializeForSetFinish
  \/ SynthesizeWitnessAccessors
  \/ ConvertStoredVarInProtocol \/ ConvertStoredVarInProtocolInstall
  \/ ConvertStoredVarInProtocolFinish
  \/ SynthesizeSetterForMutableAddressedStorage
  \/ SynthesizeSetterForMutableAddressedStorageFinish

Spec == Init /\ [][Next]_vars

\* ======================================================== SpecObs
\* synthesizeObservingAccessors builds the setter of a property with
\* willSet/didSet; the body is then executed statement by statement for one
\* write.  The hooks are user code: a hook may itself assign the property
\* (a direct store inside its own observers).

\* Values a property can hold.
MaxVal == 2
Values == 1..MaxVal
\* A temporary that has not been bound.
Unbound == 0

\* Faulty variant of synthesizeObservingSetterBody: the old value is loaded after
\* the willSet call instead of first.
synthesizeObservingSetterBodyLateLoad(hasSelf, overridden, hasWillSet, hasDidSet) ==
  (IF hasWillSet
   THEN << [op |-> "call", callee |-> "willSet", withSelf |-> hasSelf,
            arg |-> ParamRef("value")] >>
   ELSE << >>)
  \o (IF hasDidSet
      THEN << [op |-> "let", name |-> "tmp",
               value |-> createPropertyLoadOrCallSuperclassGetter(
                           hasSelf, "var", overridden)],
              [op |-> "vardecl", name |-> "tmp"] >>
      ELSE << >>)
  \o createPropertyStoreOrCallSuperclassSetter(
       hasSelf, ParamRef("value"), "var", overridden)
  \o (IF hasDidSet
      THEN << [op |-> "call", callee |-> "didSet", withSelf |-> hasSelf,
               arg |-> TmpRef("tmp")] >>
      ELSE << >>)

\* synthesizeObservingAccessors, lines 939-1014: the statements of the
\* setter.
synthesizeObservingSetterBody(hasSelf, overridden, hasWillSet, hasDidSet) ==
  (IF hasDidSet
   THEN << [op |-> "let", name |-> "tmp",
            value |-> createPropertyLoadOrCallSuperclassGetter(
                        hasSelf, "var", overridden)],
           [op |-> "vardecl", name |-> "tmp"] >>
   ELSE << >>)
  \o (IF hasWillSet
      THEN << [op |-> "call", callee |-> "willSet", withSelf |-> hasSelf,
               arg |-> ParamRef("value")] >>
      ELSE << >>)
  \o createPropertyStoreOrCallSuperclassSetter(
       hasSelf, ParamRef("value"), "var", overridden)
  \o (IF hasDidSet
      THEN << [op |-> "call", callee |-> "didSet", withSelf |-> hasSelf,
               arg |-> TmpRef("tmp")] >>
      ELSE << >>)

\* Faulty variant of hookFinalAfterSynthesis: the hook is left as it was.
hookFinalAfterSynthesisUntouched(wasFinal, inClass) == wasFinal

\* lines 981-984 and 1008-1011: a hook is made final in a class
hookFinalAfterSynthesis(wasFinal, inClass) == wasFinal \/ inClass

\* The observed properties of the model: in which scope, overriding or
\* not, with which hooks, holding which value.
ObservedProperties ==
  { [scope |-> sc, overridden |-> o, hasWillSet |-> w, hasDidSet |-> d,
     hooksFinal |-> f, v0 |-> v] :
      sc \in {"file", "struct", "class"}, o \in BOOLEAN, w \in BOOLEAN,
      d \in BOOLEAN, f \in BOOLEAN, v \in Values }

InitObs ==
  /\ \E p \in ObservedProperties :
       /\ p.hasWillSet \/ p.hasDidSet
       /\ p.overridden => p.scope = "class"
       /\ p.hooksFinal => p.scope = "class"
       /\ obs = [mode |-> "declared", prop |-> p,
                 getterBody |-> << >>, setterBody |-> << >>,
                 willSetFinal |-> p.hooksFinal, didSetFinal |-> p.hooksFinal,
                 storage |-> p.v0, value |-> Unbound, tmp |-> Unbound,
                 pc |-> 1, trace |-> << >>]
  /\ var = NoDecl /\ members = << >> /\ derived = << >> /\ backing = << >>
  /\ externals = << >> /\ diags = << >> /\ stack = << >> /\ lastExit = 0
  /\ requests = 0 /\ lazyCalls = 0 /\ crashed = FALSE
  /\ lz = IdleLz /\ mw = IdleMw /\ ov = IdleOv /\ aux = IdleAux

ObsFrame == UNCHANGED <<var, members, derived, backing, externals, diags,
                        stack, lastExit, requests, lazyCalls, crashed,
                        lz, mw, ov, aux>>

\* swift::synthesizeObservingAccessors(VD)
ObsSynthesize ==
  /\ obs.mode = "declared"
  /\ LET p == obs.prop
         hasSelf == p.scope # "file"
     IN obs' = [obs EXCEPT
          !.mode = "ready",
          !.getterBody =
             << [op |-> "return",
                 value |-> createPropertyLoadOrCallSuperclassGetter(
                             hasSelf, "var", p.overridden)] >>,
          !.setterBody = synthesizeObservingSetterBody(
                           hasSelf, p.overridden, p.hasWillSet, p.hasDidSet),
          !.willSetFinal = IF p.hasWillSet
                           THEN hookFinalAfterSynthesis(@, p.scope = "class")
                           ELSE @,
          !.didSetFinal = IF p.hasDidSet
                          THEN hookFinalAfterSynthesis(@, p.scope = "class")
                          ELSE @]
  /\ ObsFrame

\* The program writes x to the property: the synthesized setter is called.
ObsCallSetter ==
  /\ obs.mode = "ready"
  /\ \E x \in Values :
       obs' = [obs EXCEPT !.mode = "running", !.value = x, !.pc = 1]
  /\ ObsFrame

ObsStmt == obs.setterBody[obs.pc]
ObsAt(op) ==
  /\ obs.mode = "running"
  /\ obs.pc <= Len(obs.setterBody)
  /\ ObsStmt.op = op

\* The value of an expression of the setter body.
ObsEval(ex) ==
  CASE ex.e = "param" -> obs.value
    [] ex.e = "tmp" -> obs.tmp
    [] ex.e = "storage" -> obs.storage

\* let tmp = <load of the old value>
ObsLet ==
  /\ ObsAt("let")
  /\ obs' = [obs EXCEPT
       !.tmp = ObsEval(ObsStmt.value),
       !.trace = Append(@, [ev |-> "load", arg |-> ObsEval(ObsStmt.value),
                            held |-> obs.storage]),
       !.pc = @ + 1]
  /\ ObsFrame

\* the declaration node of the temporary: nothing to execute
ObsVarDecl ==
  /\ ObsAt("vardecl")
  /\ obs' = [obs EXCEPT !.pc = @ + 1]
  /\ ObsFrame

\* a call of willSet or didSet; the hook may assign the property
ObsCallHook ==
  /\ ObsAt("call")
  /\ \E w \in Values \cup {Unbound} :
       obs' = [obs EXCEPT
         !.trace = Append(@, [ev |-> ObsStmt.callee,
                              arg |-> ObsEval(ObsStmt.arg),
                              held |-> obs.storage]),
         !.storage = IF w = Unbound THEN @ ELSE w,
         !.pc = @ + 1]
  /\ ObsFrame

\* storage = value
ObsAssign ==
  /\ ObsAt("assign")
  /\ obs' = [obs EXCEPT
       !.storage = ObsEval(ObsStmt.src),
       !.trace = Append(@, [ev |-> "store", arg |-> ObsEval(ObsStmt.src),
                            held |-> ObsEval(ObsStmt.src)]),
       !.pc = @ + 1]
  /\ ObsFrame

\* the end of the body
ObsReturn ==
  /\ obs.mode = "running"
  /\ obs.pc > Len(obs.setterBody)
  /\ obs' = [obs EXCEPT !.mode = "done"]
  /\ ObsFrame

NextObs ==
  \/ ObsSynthesize \/ ObsCallSetter \/ ObsLet \/ ObsVarDecl \/ ObsCallHook
  \/ ObsAssign \/ ObsReturn

SpecObs == InitObs /\ [][NextObs]_vars

\* ================================================ SpecLazySeq, SpecLazyConc
\* The accessors completeLazyVarImplementation gives a lazy property are
\* executed: reads run the getter body statement by statement, writes run
\* the setter body.  In SpecLazySeq one access runs at a time; in
\* SpecLazyConc the reads of several execution contexts interleave.

MaxContexts == 2
MaxReads == 3
MaxWrites == 1
LazyContexts == 1..MaxContexts
\* The backing optional holds nothing.
Nil == Unbound
\* A context that is not inside the getter.
IdleContext == [pc |-> 0, tmp1 |-> Nil, tmp2 |-> Nil, sawEmpty |-> FALSE]

\* The lazy property after completeLazyVarImplementation: the bodies of its
\* accessors and its empty backing storage.
\* Faulty variant of lazySetterBody: the store goes through the property
\* itself, not to the backing storage.
lazySetterBodyToProperty(hasSelf) ==
  createPropertyStoreOrCallSuperclassSetter(
    hasSelf, ParamRef("value"), "var", FALSE)

\* line 1229: synthesizeTrivialSetter(Set, Storage, SetValueDecl), the body
\* it gives the setter of the lazy property.
lazySetterBody(hasSelf) ==
  createPropertyStoreOrCallSuperclassSetter(
    hasSelf, ParamRef("value"), "storage", FALSE)

LazyProgram(hasSelf, concurrent) ==
  [mode |-> "run", concurrent |-> concurrent,
   getterBody |-> completeLazyPropertyGetterBody(hasSelf, TRUE),
   setterBody |-> lazySetterBody(hasSelf),
   backing |-> Nil, evals |-> 0, emptyLoads |-> 0, reads |-> 0, writes |-> 0,
   written |-> Nil, evalsAtWrite |-> 0, readsAtWrite |-> 0,
   cx |-> [c \in LazyContexts |-> IdleContext],
   returned |-> << >>]

LazyOthers ==
  /\ var = NoDecl /\ members = << >> /\ derived = << >> /\ backing = << >>
  /\ externals = << >> /\ diags = << >> /\ stack = << >> /\ lastExit = 0
  /\ requests = 0 /\ lazyCalls = 0 /\ crashed = FALSE
  /\ obs = IdleObs /\ mw = IdleMw /\ ov = IdleOv /\ aux = IdleAux

InitLazySeq ==
  /\ lz = LazyProgram(TRUE, FALSE)
  /\ LazyOthers

InitLazyConc ==
  /\ lz = LazyProgram(TRUE, TRUE)
  /\ LazyOthers

LzFrame == UNCHANGED <<var, members, derived, backing, externals, diags,
                       stack, lastExit, requests, lazyCalls, crashed,
                       obs, mw, ov, aux>>

LzAllIdle == \A c \in LazyContexts : lz.cx[c].pc = 0

\* The statement context c is at.
LzStmt(c) == lz.getterBody[lz.cx[c].pc]
LzAt(c, op) ==
  /\ lz.mode = "run"
  /\ lz.cx[c].pc \in 1..Len(lz.getterBody)
  /\ LzStmt(c).op = op

\* The value of an expression of the getter body in context c.
LzEval(c, ex) ==
  CASE ex.e = "storage" -> lz.backing
    [] ex.e = "tmp" -> (IF ex.name = "tmp1" THEN lz.cx[c].tmp1
                        ELSE lz.cx[c].tmp2)
    [] ex.e = "force" -> (IF ex.of.name = "tmp1" THEN lz.cx[c].tmp1
                          ELSE lz.cx[c].tmp2)

\* What a finished read leaves behind.
LzResult(c, ex) ==
  [ctx |-> c, value |-> LzEval(c, ex), sawEmpty |-> lz.cx[c].sawEmpty,
   own |-> lz.cx[c].tmp2]

\* Context c reads the property: the getter is entered.
LzStartRead(c) ==
  /\ lz.mode = "run" /\ lz.cx[c].pc = 0
  /\ lz.reads < MaxReads
  /\ ~lz.concurrent => LzAllIdle
  /\ lz' = [lz EXCEPT !.cx[c] = [IdleContext EXCEPT !.pc = 1],
                      !.reads = @ + 1]
  /\ LzFrame

\* let tmp1 = storage
LzLoadStorage(c) ==
  /\ LzAt(c, "let") /\ LzStmt(c).value.e = "storage"
  /\ lz' = [lz EXCEPT !.cx[c].tmp1 = lz.backing,
                      !.cx[c].sawEmpty = (lz.backing = Nil),
                      !.emptyLoads = IF lz.backing = Nil THEN @ + 1 ELSE @,
                      !.cx[c].pc = @ + 1]
  /\ LzFrame

\* the declaration node of a temporary: nothing to execute
LzVarDecl(c) ==
  /\ LzAt(c, "vardecl")
  /\ lz' = [lz EXCEPT !.cx[c].pc = @ + 1]
  /\ LzFrame

\* if tmp1 { return tmp1! }
LzIfReturn(c) ==
  /\ LzAt(c, "if_return")
  /\ IF LzEval(c, LzStmt(c).cond) # Nil
     THEN lz' = [lz EXCEPT
                   !.returned = Append(@, LzResult(c, LzStmt(c).value)),
                   !.cx[c] = IdleContext]
     ELSE lz' = [lz EXCEPT !.cx[c].pc = @ + 1]
  /\ LzFrame

\* let tmp2 : Ty = <initializer>: the initializer runs (a user expression,
\* which may yield a different value each time it is evaluated)
LzEvaluateInitializer(c) ==
  /\ LzAt(c, "let") /\ LzStmt(c).value.e = "initializer"
  /\ \E v \in Values :
       lz' = [lz EXCEPT !.cx[c].tmp2 = v, !.evals = @ + 1,
                        !.cx[c].pc = @ + 1]
  /\ LzFrame

\* storage = tmp2
LzAssign(c) ==
  /\ LzAt(c, "assign")
  /\ lz' = [lz EXCEPT !.backing = LzEval(c, LzStmt(c).src),
                      !.cx[c].pc = @ + 1]
  /\ LzFrame

\* return tmp2
LzReturn(c) ==
  /\ LzAt(c, "return")
  /\ lz' = [lz EXCEPT
              !.returned = Append(@, LzResult(c, LzStmt(c).value)),
              !.cx[c] = IdleContext]
  /\ LzFrame

\* The program writes v to the property: the setter body, one direct store.
LzWrite ==
  /\ lz.mode = "run" /\ LzAllIdle
  /\ lz.writes < MaxWrites
  /\ Len(lz.setterBody) = 1 /\ lz.setterBody[1].op = "assign"
  /\ \E v \in Values :
       LET st == lz.setterBody[1]
           x == IF st.src.e = "param" THEN v ELSE Nil
       IN lz' = [lz EXCEPT
                   !.backing = IF st.dest.target = "storage" THEN x ELSE @,
                   !.writes = @ + 1, !.written = v,
                   !.evalsAtWrite = lz.evals,
                   !.readsAtWrite = Len(lz.returned)]
  /\ LzFrame

NextLazyConc ==
  \E c \in LazyContexts :
    \/ LzStartRead(c) \/ LzLoadStorage(c) \/ LzVarDecl(c) \/ LzIfReturn(c)
    \/ LzEvaluateInitializer(c) \/ LzAssign(c) \/ LzReturn(c)

NextLazySeq == NextLazyConc \/ LzWrite

SpecLazySeq == InitLazySeq /\ [][NextLazySeq]_vars
SpecLazyConc == InitLazyConc /\ [][NextLazyConc]_vars

\* ======================================================== SpecInit
\* createImplicitConstructor on a struct or class whose members are given.

MaxProps == 2

\* Accessibility, ordered private < internal < public.
AccessLevels == <<"private", "internal", "public">>
AccessRank(a) == CHOOSE i \in 1..Len(AccessLevels) : AccessLevels[i] = a
\* Faulty variant of minAccess: the second level is ignored.
minAccessFirst(a, b) == a

\* std::min on Accessibility
minAccess(a, b) == IF AccessRank(a) <= AccessRank(b) THEN a ELSE b

\* NominalTypeDecl::getStoredProperties: the member variables that have
\* storage and are not static, in declaration order.
getStoredProperties(ms) ==
  SelectSeq(ms, LAMBDA m : m.hasStorage /\ ~m.isStatic)

\* Faulty variant of skippedByMemberwise: an initialized let gets a parameter too.
skippedByMemberwiseOnlyImplicit(v) == v.implicit

\* lines 1399-1407: the stored properties the loop passes over
skippedByMemberwise(v) == v.implicit \/ (v.isLet /\ v.parentInit)

\* lines 1422-1425: the parameter made for a property
memberwiseParam(v) ==
  [name |-> v.name, argName |-> v.name, isLet |-> TRUE, implicit |-> TRUE,
   optional |-> v.lazy]

\* lines 1398-1427: the loop over the stored properties; the result is the
\* parameters and the access level accumulated so far.
RECURSIVE memberwiseLoop(_, _, _)
memberwiseLoop(props, params, accessLevel) ==
  IF props = << >> THEN [params |-> params, accessLevel |-> accessLevel]
  ELSE LET v == Head(props) IN
       IF skippedByMemberwise(v)
       THEN memberwiseLoop(Tail(props), params, accessLevel)
       ELSE memberwiseLoop(Tail(props), Append(params, memberwiseParam(v)),
                           minAccess(accessLevel, v.access))

\* lines 1430-1465: the ConstructorDecl is created and returned without a
\* call of setBody.
implicitConstructorBody(params) == [hasBody |-> FALSE, body |-> << >>]

\* Faulty variant of declAfterImplicitConstructor: the constructor joins the
\* members of the type.
declWithImplicitConstructor(decl, ctor) ==
  [decl EXCEPT !.members = Append(@, ctor)]

\* lines 1383-1465 contain no addMember: the type is left as it was.
declAfterImplicitConstructor(decl, ctor) == decl

\* createImplicitConstructor(tc, decl, ICK): the constructor returned.
createImplicitConstructor(decl, ICK) ==
  LET access0 == IF ~decl.clang THEN minAccess(decl.access, "internal")
                 ELSE decl.access
      r == IF ICK = "Memberwise"
           THEN memberwiseLoop(getStoredProperties(decl.members), << >>,
                               access0)
           ELSE [params |-> << >>, accessLevel |-> access0]
  IN [kind |-> "constructor", params |-> r.params, implicit |-> TRUE,
      access |-> r.accessLevel, memberwise |-> (ICK = "Memberwise"),
      override |-> (decl.kind = "class" /\ decl.hasSuperclass),
      typeChecked |-> TRUE,
      hasBody |-> implicitConstructorBody(r.params).hasBody,
      body |-> implicitConstructorBody(r.params).body]

\* The member variables a struct or class can declare.  A let or a static
\* is never lazy; a lazy variable is a stored var with an initializer.
MemberVars ==
  { [hasStorage |-> st, isStatic |-> sc, implicit |-> im, isLet |-> l,
     parentInit |-> pi, lazy |-> lzy, access |-> ac] :
      st \in BOOLEAN, sc \in BOOLEAN, im \in BOOLEAN, l \in BOOLEAN,
      pi \in BOOLEAN, lzy \in BOOLEAN, ac \in {"private", "internal", "public"} }

WellFormedMemberVar(m) ==
  /\ m.lazy => (m.hasStorage /\ ~m.isLet /\ m.parentInit /\ ~m.isStatic
                  /\ ~m.implicit)
  /\ ~m.hasStorage => (~m.isLet /\ ~m.parentInit /\ ~m.implicit)
  /\ m.isStatic => (~m.implicit /\ m.hasStorage /\ m.parentInit)
  /\ m.implicit => (~m.isLet /\ ~m.parentInit)

\* The i-th declared member is named i.
NamedMembers(ms) ==
  [i \in 1..Len(ms) |->
     [name |-> i, hasStorage |-> ms[i].hasStorage,
      isStatic |-> ms[i].isStatic, implicit |-> ms[i].implicit,
      isLet |-> ms[i].isLet, parentInit |-> ms[i].parentInit,
      lazy |-> ms[i].lazy, access |-> ms[i].access]]

InitMw ==
  /\ \E n \in 0..MaxProps :
     \E ms \in [1..n -> {m \in MemberVars : WellFormedMemberVar(m)}],
        k \in {"struct", "class"}, ac \in {"private", "internal", "public"},
        cl \in BOOLEAN, su \in BOOLEAN :
       /\ k = "struct" => ~su
       /\ k = "class" => (~cl /\ n <= 1)
       /\ mw = [mode |-> "declared",
                decl |-> [kind |-> k, access |-> ac, clang |-> cl,
                          hasSuperclass |-> su, members |-> NamedMembers(ms)],
                ICK |-> "none", ctor |-> NoDecl, externals |-> << >>]
  /\ var = NoDecl /\ members = << >> /\ derived = << >> /\ backing = << >>
  /\ externals = << >> /\ diags = << >> /\ stack = << >> /\ lastExit = 0
  /\ requests = 0 /\ lazyCalls = 0 /\ crashed = FALSE
  /\ obs = IdleObs /\ lz = IdleLz /\ ov = IdleOv /\ aux = IdleAux

\* swift::createImplicitConstructor(tc, decl, ICK); a memberwise
\* constructor is asked for structs only (line 1395).
CreateImplicitConstructor ==
  /\ mw.mode = "declared"
  /\ \E ICK \in {"Memberwise", "Default"} :
       /\ ICK = "Memberwise" => mw.decl.kind = "struct"
       /\ mw' = [mw EXCEPT
            !.mode = "created", !.ICK = ICK,
            !.ctor = createImplicitConstructor(mw.decl, ICK),
            !.decl = declAfterImplicitConstructor(
                       mw.decl, createImplicitConstructor(mw.decl, ICK)),
            !.externals = IF mw.decl.clang THEN Append(@, "constructor")
                          ELSE @]
  /\ UNCHANGED <<var, members, derived, backing, externals, diags, stack,
                 lastExit, requests, lazyCalls, crashed, obs, lz, ov, aux>>

NextMw == CreateImplicitConstructor

SpecInit == InitMw /\ [][NextMw]_vars

\* ======================================================== SpecOverride
\* createDesignatedInitOverride on a class and a designated initializer of
\* its superclass.

MaxParams == 2

NullExpr == [e |-> "null"]

\* lines 408-411: the reference that forwards one parameter
forwardedArgument(param) ==
  [e |-> "declref", param |-> param.name, inout |-> param.inout]

\* Faulty variant of buildArgumentForwardingExpr: variadic parameters are forwarded
\* like the others.
buildArgumentForwardingExprWithVariadics(params) ==
  IF Len(params) = 1 /\ ~params[1].labelled
  THEN forwardedArgument(params[1])
  ELSE [e |-> "tuple",
        args |-> [i \in 1..Len(params) |-> forwardedArgument(params[i])],
        labels |-> [i \in 1..Len(params) |->
                      IF params[i].labelled THEN params[i].name ELSE 0]]

\* buildArgumentForwardingExpr: null when a parameter is variadic, the lone
\* unlabelled argument itself, or the tuple of the arguments.
buildArgumentForwardingExpr(params) ==
  IF \E i \in 1..Len(params) : params[i].variadic THEN NullExpr
  ELSE IF Len(params) = 1 /\ ~params[1].labelled
  THEN forwardedArgument(params[1])
  ELSE [e |-> "tuple",
        args |-> [i \in 1..Len(params) |-> forwardedArgument(params[i])],
        labels |-> [i \in 1..Len(params) |->
                      IF params[i].labelled THEN params[i].name ELSE 0]]

\* The declaration whose location each diagnostic of the initializer
\* synthesis is emitted at (lines 1471, 1591-1594).
diagnosticLocation(id) ==
  CASE id = "missing_unimplemented_init_runtime" -> "classDecl"
    [] id = "unsupported_synthesize_init_variadic" -> "classDecl"
    [] id = "variadic_superclass_init_here" -> "superclassCtor"

\* Faulty variant of createStubBody: without the runtime hook the
\* constructor is still marked as a stub implementation.
createStubBodyAlwaysMarked(r, hook) ==
  IF ~hook
  THEN [r EXCEPT !.diags = Append(@, "missing_unimplemented_init_runtime"),
                 !.ctor.stub = TRUE]
  ELSE [r EXCEPT
          !.ctor.hasBody = TRUE,
          !.ctor.body = << [op |-> "call",
                            callee |-> "_unimplemented_initializer",
                            args |-> [e |-> "string",
                                      value |-> "Module.Class"],
                            try |-> FALSE] >>,
          !.ctor.stub = TRUE]

\* createStubBody(tc, ctor): r is the constructor and the diagnostics so
\* far; hook: Swift._unimplemented_initializer can be found.
createStubBody(r, hook) ==
  IF ~hook
  THEN [r EXCEPT !.diags = Append(@, "missing_unimplemented_init_runtime")]
  ELSE [r EXCEPT
          !.ctor.hasBody = TRUE,
          !.ctor.body = << [op |-> "call",
                            callee |-> "_unimplemented_initializer",
                            args |-> [e |-> "string",
                                      value |-> "Module.Class"],
                            try |-> FALSE] >>,
          !.ctor.stub = TRUE]

\* Faulty variant of isGenericInitOverride: the generic parameters of the
\* class's context are not looked at.
isGenericInitOverrideInitializerOnly(classDecl, superclassCtor) ==
  superclassCtor.generic

\* lines 1508-1510: the superclass initializer's interface type is a
\* GenericFunctionType, or the class has generic parameters of context.
isGenericInitOverride(classDecl, superclassCtor) ==
  superclassCtor.generic \/ classDecl.generic

\* createDesignatedInitOverride(tc, classDecl, superclassCtor, kind): the
\* constructor returned (NoDecl for null) and the diagnostics emitted.
createDesignatedInitOverride(classDecl, superclassCtor, kind, hook) ==
  IF isGenericInitOverride(classDecl, superclassCtor)
  THEN [ctor |-> NoDecl, diags |-> << >>]
  ELSE
    LET bodyParams == [i \in 1..Len(superclassCtor.params) |->
                         [superclassCtor.params[i] EXCEPT
                            !.implicit = TRUE, !.inherited = TRUE]]
        ctor == [kind |-> "constructor", params |-> bodyParams,
                 implicit |-> TRUE,
                 access |-> minAccess(classDecl.access,
                                      superclassCtor.access),
                 required |-> superclassCtor.required, override |-> TRUE,
                 throws |-> superclassCtor.throws,
                 hasBody |-> FALSE, body |-> << >>, stub |-> FALSE]
        r0 == [ctor |-> ctor, diags |-> << >>]
        ctorArgs == buildArgumentForwardingExpr(bodyParams)
    IN IF kind = "Stub" THEN createStubBody(r0, hook)
       ELSE IF ctorArgs = NullExpr
       THEN createStubBody(
              [r0 EXCEPT !.diags =
                 <<"unsupported_synthesize_init_variadic",
                   "variadic_superclass_init_here">>], hook)
       ELSE [r0 EXCEPT
               !.ctor.hasBody = TRUE,
               !.ctor.body = << [op |-> "call", callee |-> "super.init",
                                 args |-> ctorArgs,
                                 try |-> superclassCtor.throws] >>]

\* The parameters an initializer can declare; a variadic parameter is not
\* inout.
InitParams ==
  { [labelled |-> l, variadic |-> v, inout |-> io] :
      l \in BOOLEAN, v \in BOOLEAN, io \in BOOLEAN }

\* The i-th parameter is named i.
NamedParams(ps) ==
  [i \in 1..Len(ps) |->
     [name |-> i, labelled |-> ps[i].labelled, variadic |-> ps[i].variadic,
      inout |-> ps[i].inout, implicit |-> FALSE, inherited |-> FALSE]]

InitOv ==
  /\ \E n \in 0..MaxParams :
     \E ps \in [1..n -> {q \in InitParams : ~(q.variadic /\ q.inout)}],
        cg \in BOOLEAN, sg \in BOOLEAN, th \in BOOLEAN, rq \in BOOLEAN,
        hook \in BOOLEAN,
        ca \in {"private", "internal", "public"},
        sa \in {"private", "internal", "public"} :
       ov = [mode |-> "declared",
             classDecl |-> [generic |-> cg, access |-> ca],
             superclassCtor |-> [generic |-> sg, params |-> NamedParams(ps),
                                 throws |-> th, required |-> rq,
                                 access |-> sa],
             hook |-> hook, requested |-> "none",
             ctor |-> NoDecl, diags |-> << >>]
  /\ var = NoDecl /\ members = << >> /\ derived = << >> /\ backing = << >>
  /\ externals = << >> /\ diags = << >> /\ stack = << >> /\ lastExit = 0
  /\ requests = 0 /\ lazyCalls = 0 /\ crashed = FALSE
  /\ obs = IdleObs /\ lz = IdleLz /\ mw = IdleMw /\ aux = IdleAux

\* swift::createDesignatedInitOverride(tc, classDecl, superclassCtor, kind)
CreateDesignatedInitOverride ==
  /\ ov.mode = "declared"
  /\ \E kind \in {"Stub", "Chaining"} :
       LET r == createDesignatedInitOverride(ov.classDecl, ov.superclassCtor,
                                             kind, ov.hook)
       IN ov' = [ov EXCEPT !.mode = "created", !.requested = kind,
                           !.ctor = r.ctor, !.diags = r.diags]
  /\ UNCHANGED <<var, members, derived, backing, externals, diags, stack,
                 lastExit, requests, lazyCalls, crashed, obs, lz, mw, aux>>

NextOv == CreateDesignatedInitOverride

SpecOverride == InitOv /\ [][NextOv]_vars

\* ================================================================ SpecRef
\* buildStorageReference applied to every combination of its inputs.
AccessSemanticsKinds == {"Ordinary", "DirectToStorage", "DirectToAccessor"}
SelfAccessKinds == {"Peer", "Super"}
StorageTargets == {"var", "storage", "subscript"}

RefOthers ==
  /\ var = NoDecl /\ members = << >> /\ derived = << >> /\ backing = << >>
  /\ externals = << >> /\ diags = << >> /\ stack = << >> /\ lastExit = 0
  /\ requests = 0 /\ lazyCalls = 0 /\ crashed = FALSE
  /\ obs = IdleObs /\ lz = IdleLz /\ mw = IdleMw /\ ov = IdleOv

AuxFrame == UNCHANGED <<var, members, derived, backing, externals, diags,
                        stack, lastExit, requests, lazyCalls, crashed,
                        obs, lz, mw, ov>>

\* The accessor (with or without self), the storage it refers to and the
\* StorageReferenceContext of the request.
InitRef ==
  /\ RefOthers
  /\ \E hasSelf \in BOOLEAN, target \in StorageTargets, overridden \in BOOLEAN,
        semantics \in AccessSemanticsKinds, selfAccessKind \in SelfAccessKinds :
       aux = [mode |-> "ref", hasSelf |-> hasSelf, target |-> target,
              overridden |-> overridden, semantics |-> semantics,
              selfAccessKind |-> selfAccessKind, built |-> FALSE,
              result |-> NullExpr]

\* buildStorageReference(accessor, storage, semantics, selfAccessKind, TC)
BuildStorageReference ==
  /\ aux.mode = "ref" /\ ~aux.built
  /\ aux' = [aux EXCEPT !.built = TRUE,
                         !.result = buildStorageReference(aux.hasSelf,
                                      aux.target, aux.overridden,
                                      aux.semantics, aux.selfAccessKind)]
  /\ AuxFrame

NextRef == BuildStorageReference
SpecRef == InitRef /\ [][NextRef]_vars

\* ================================================================ SpecDtor
\* TypeChecker::addImplicitDestructor on one class, called repeatedly: from
\* outside, and from the type checker while an earlier call has it check
\* the destructor declaration (line 1624).
MaxOtherMembers == 2
MaxDtorCalls == 3
\* Calls of addImplicitDestructor that can be in progress at once.
MaxDtorDepth == 2

\* A destructor written in the source of the class.
ExplicitDestructor ==
  [kind |-> "destructor", implicit |-> FALSE, params |-> <<"self">>,
   typeChecked |-> TRUE, hasBody |-> TRUE, body |-> <<"stmt">>]

\* The DestructorDecl of lines 1616-1621: self-only, implicit, not yet
\* type-checked and without a body.
createDestructor ==
  [kind |-> "destructor", implicit |-> TRUE, params |-> <<"self">>,
   typeChecked |-> FALSE, hasBody |-> FALSE, body |-> << >>]

OtherMember(n) ==
  [kind |-> n, implicit |-> FALSE, params |-> << >>,
   typeChecked |-> FALSE, hasBody |-> FALSE, body |-> << >>]

\* line 1613: the call returns at once
hasDestructorOrInvalid(CD) == CD.hasDestructor \/ CD.invalid

\* lines 1624-1629 after typeCheckDecl returned: DD gets an empty brace
\* statement as body, joins the members, and the class is marked.
finishImplicitDestructor(CD, DD) ==
  [CD EXCEPT !.members = Append(CD.members,
                                [DD EXCEPT !.typeChecked = TRUE,
                                           !.hasBody = TRUE,
                                           !.body = << >>]),
             !.hasDestructor = TRUE]

OtherMemberLists ==
  UNION {[1..n -> {OtherMember("var"), OtherMember("func")}]
           : n \in 0..MaxOtherMembers}

\* A class as the parser leaves it: the hasDestructor bit is set exactly
\* when a destructor was parsed among the members.  pending: the
\* destructors of the calls in progress, the innermost last.
InitDtor ==
  /\ RefOthers
  /\ \E ms \in OtherMemberLists, explicit \in BOOLEAN, invalid \in BOOLEAN :
       aux = [mode |-> "dtor",
              CD |-> [members |-> IF explicit
                                  THEN Append(ms, ExplicitDestructor) ELSE ms,
                      hasDestructor |-> explicit, invalid |-> invalid],
              pending |-> << >>, calls |-> 0, returned |-> 0]

\* addImplicitDestructor(CD) is called, lines 1613-1624: it returns at once,
\* or creates the destructor and hands it to the type checker.  Line 1613
\* is its only test, so a call that arrives while an earlier one is inside
\* typeCheckDecl (line 1624) is served like any other.
AddImplicitDestructor ==
  /\ aux.mode = "dtor" /\ aux.calls < MaxDtorCalls
  /\ Len(aux.pending) < MaxDtorDepth
  /\ IF hasDestructorOrInvalid(aux.CD)
     THEN aux' = [aux EXCEPT !.calls = aux.calls + 1,
                             !.returned = aux.returned + 1]
     ELSE aux' = [aux EXCEPT !.calls = aux.calls + 1,
                             !.pending = Append(aux.pending, createDestructor)]
  /\ AuxFrame

\* typeCheckDecl returns to the innermost call, lines 1627-1629
AddImplicitDestructorFinish ==
  /\ aux.mode = "dtor" /\ aux.pending # << >>
  /\ LET n == Len(aux.pending) IN
     aux' = [aux EXCEPT !.CD = finishImplicitDestructor(aux.CD,
                                                       aux.pending[n]),
                        !.pending = SubSeq(aux.pending, 1, n - 1),
                        !.returned = aux.returned + 1]
  /\ AuxFrame

NextDtor == AddImplicitDestructor \/ AddImplicitDestructorFinish
SpecDtor == InitDtor /\ [][NextDtor]_vars

\* ================================================================ SpecCopy
\* The setter of an @NSCopying property: createPropertyStoreOrCallSuperclass-
\* Setter with synthesizeCopyWithZoneCall, and the execution of the
\* assignment it builds.
MaxObjects == 2
MaxLookupResults == 2

\* getNSCopyingProtocol: null (FALSE) unless Foundation is loaded and the
\* qualified lookup of NSCopying finds exactly one declaration, a protocol.
getNSCopyingProtocol(env) ==
  /\ env.foundation
  /\ env.results = 1
  /\ env.resultIsProtocol

\* lines 627-660: the copy call built around Val.
copyWithZoneCall(Val, isOptional) ==
  LET receiver == IF isOptional THEN [e |-> "bindOptional", sub |-> Val]
                  ELSE Val
      Call == [e |-> "call", member |-> "copyWithZone", base |-> receiver,
               arg |-> "nil"]
  IN IF ~isOptional
     THEN [e |-> "forcedCheckedCast", sub |-> Call]
     ELSE [e |-> "optionalEvaluation",
           sub |-> [e |-> "conditionalCheckedCast", sub |-> Call]]

\* Faulty variant of synthesizeCopyWithZoneCall: the copy call is built
\* whether or not the type conforms.
synthesizeCopyWithZoneCallUnchecked(Val, VD, env) ==
  [expr |-> copyWithZoneCall(Val, VD.optional), diags |-> << >>]

\* synthesizeCopyWithZoneCall(Val, VD, TC): the expression returned and the
\* diagnostics emitted.  VD.optional: the type of VD is an optional, whose
\* object type is the one tested; VD.conforms: that type conforms.
synthesizeCopyWithZoneCall(Val, VD, env) ==
  IF ~getNSCopyingProtocol(env) \/ ~VD.conforms
  THEN [expr |-> Val, diags |-> <<"nscopying_doesnt_conform">>]
  ELSE [expr |-> copyWithZoneCall(Val, VD.optional), diags |-> << >>]

\* lines 674-677: the value stored by createPropertyStoreOrCallSuperclass-
\* Setter.
valueToStore(value, property, env) ==
  IF property.nscopying
  THEN synthesizeCopyWithZoneCall(value, property, env)
  ELSE [expr |-> value, diags |-> << >>]

\* Run-time values: nil, the objects passed to the setter, their copies.
NilObject == [id |-> 0, copyOf |-> 0, type |-> "nil"]
Object(n) == [id |-> n, copyOf |-> 0, type |-> "T"]
\* Evaluation left the enclosing optionalEvaluation / trapped.
ShortCircuit == [id |-> 0, copyOf |-> 0, type |-> "short-circuit"]
Trap == [id |-> 0, copyOf |-> 0, type |-> "trap"]

\* The value of an expression of the setter body.  x: the value of the
\* parameter; copyType: the dynamic type of what copyWithZone returns
\* ("T", the type of the property, or "Other").
RECURSIVE evalStored(_, _, _)
evalStored(expr, x, copyType) ==
  CASE expr.e = "param" -> x
    [] expr.e = "bindOptional" ->
         LET v == evalStored(expr.sub, x, copyType)
         IN IF v.type = "nil" THEN ShortCircuit ELSE v
    [] expr.e = "call" ->
         LET v == evalStored(expr.base, x, copyType)
         IN IF v.type \in {"short-circuit", "trap"} THEN v
            ELSE [id |-> v.id + MaxObjects, copyOf |-> v.id,
                  type |-> copyType]
    [] expr.e = "forcedCheckedCast" ->
         LET v == evalStored(expr.sub, x, copyType)
         IN IF v.type \in {"short-circuit", "trap", "T"} THEN v ELSE Trap
    [] expr.e = "conditionalCheckedCast" ->
         LET v == evalStored(expr.sub, x, copyType)
         IN IF v.type \in {"short-circuit", "trap", "T"} THEN v
            ELSE NilObject
    [] expr.e = "optionalEvaluation" ->
         LET v == evalStored(expr.sub, x, copyType)
         IN IF v.type = "short-circuit" THEN NilObject ELSE v

\* A stored property of a class, its type, the Foundation module as the
\* lookup sees it, and the class of the objects copyWithZone returns.
InitCopy ==
  /\ RefOthers
  /\ \E nscopying \in BOOLEAN, optional \in BOOLEAN, conforms \in BOOLEAN,
        overridden \in BOOLEAN, foundation \in BOOLEAN,
        results \in 0..MaxLookupResults, resultIsProtocol \in BOOLEAN,
        copyType \in {"T", "Other"}, fixed \in BOOLEAN, invalid \in BOOLEAN,
        clang \in BOOLEAN :
       /\ ~foundation => results = 0
       /\ results = 0 => ~resultIsProtocol
       /\ aux = [mode |-> "copy",
                 property |-> [nscopying |-> nscopying, optional |-> optional,
                               conforms |-> conforms,
                               overridden |-> overridden,
                               invalid |-> invalid, clang |-> clang,
                               ctx |-> Ctx("class", FALSE, FALSE, FALSE,
                                           FALSE, fixed)],
                 env |-> [foundation |-> foundation, results |-> results,
                          resultIsProtocol |-> resultIsProtocol],
                 copyType |-> copyType,
                 setter |-> createSetterPrototype(
                              [ctx |-> Ctx("class", FALSE, FALSE, FALSE, FALSE,
                                           FALSE),
                               setterNonMutating |-> FALSE,
                               final |-> FALSE, isStatic |-> FALSE]),
                 diags |-> << >>, externals |-> << >>,
                 synthesized |-> FALSE, calls |-> 0,
                 incoming |-> NilObject, stored |-> NilObject,
                 trapped |-> FALSE]

\* synthesizeTrivialSetter on the property, lines 737-752 with 674-688:
\* nothing for an invalid property; otherwise the body, the transparent
\* attribute and the registration as an external declaration.
CopySynthesizeSetter ==
  /\ aux.mode = "copy" /\ ~aux.synthesized
  /\ IF aux.property.invalid
     THEN aux' = [aux EXCEPT !.synthesized = TRUE]
     ELSE LET v == valueToStore(ParamRef("value"), aux.property, aux.env)
              body == createPropertyStoreOrCallSuperclassSetter(
                        aux.setter.hasSelf, v.expr, "var",
                        aux.property.overridden)
              st == maybeMarkTransparent(
                      [aux.setter EXCEPT !.hasBody = TRUE, !.body = body],
                      aux.property)
          IN aux' = registerExternal(
                      [aux EXCEPT !.synthesized = TRUE, !.setter = st,
                                  !.diags = aux.diags \o v.diags],
                      aux.property, "setter")
  /\ AuxFrame

\* The setter is called with x: its assignment is executed.
CopyCallSetter ==
  /\ aux.mode = "copy" /\ aux.setter.hasBody /\ aux.calls = 0
  /\ \E x \in {Object(n) : n \in 1..MaxObjects}
             \cup (IF aux.property.optional THEN {NilObject} ELSE {}) :
       LET v == evalStored(aux.setter.body[1].src, x, aux.copyType)
       IN aux' = [aux EXCEPT !.calls = 1, !.incoming = x,
                             !.trapped = (v.type = "trap"),
                             !.stored = IF v.type = "trap" THEN aux.stored
                                        ELSE v]
  /\ AuxFrame

NextCopy == CopySynthesizeSetter \/ CopyCallSetter
SpecCopy == InitCopy /\ [][NextCopy]_vars

\* ================================================================ SpecIndex
\* The index parameters of a subscript accessor: the parameter list its
\* prototype gets (buildIndexForwardingParamList) and the reference to the
\* indices built from it (buildSubscriptIndexReference).
AccessorKinds == {"Getter", "Setter", "MaterializeForSet"}
IndexNames == <<"i1", "i2", "i3", "i4">>

\* The indices of the subscript as declared: the i-th is named IndexNames[i].
NamedIndices(ps) ==
  [i \in 1..Len(ps) |->
     [name |-> IndexNames[i], labelled |-> ps[i].labelled,
      variadic |-> ps[i].variadic, inout |-> ps[i].inout,
      implicit |-> FALSE, inherited |-> FALSE]]

\* buildArgument (lines 58-68): an implicit parameter without a label.
buildArgument(name, isInOut) ==
  [name |-> name, labelled |-> FALSE, variadic |-> FALSE, inout |-> isInOut,
   implicit |-> TRUE, inherited |-> FALSE]

\* The parameters each prototype puts before the indices: none (line 135),
\* value (lines 181-184), buffer and callbackStorage (lines 311-315).
accessorPrefix(accessorKind) ==
  CASE accessorKind = "Getter" -> << >>
    [] accessorKind = "Setter" -> << buildArgument("value", FALSE) >>
    [] accessorKind = "MaterializeForSet" ->
         << buildArgument("buffer", FALSE),
            buildArgument("callbackStorage", TRUE) >>

\* buildIndexForwardingParamList(storage, prefix): the prefix alone for a
\* variable, the prefix and the cloned (implicit) indices for a subscript.
buildIndexForwardingParamList(isSubscript, indices, prefix) ==
  IF ~isSubscript THEN prefix
  ELSE prefix \o [i \in 1..Len(indices) |->
                   [indices[i] EXCEPT !.implicit = TRUE]]

\* Faulty variant of indexParamsOf: one parameter is dropped for every
\* accessor but the getter, the callback storage is kept.
indexParamsOfSliceOnce(params, accessorKind) ==
  IF accessorKind # "Getter" THEN Tail(params) ELSE params

\* buildSubscriptIndexReference, lines 435-444: the parameters left after
\* the value/buffer parameter and the callback storage are dropped.
indexParamsOf(params, accessorKind) ==
  LET p1 == IF accessorKind # "Getter" THEN Tail(params) ELSE params
  IN IF accessorKind = "MaterializeForSet" THEN Tail(p1) ELSE p1

\* buildSubscriptIndexReference, line 447: the expression before the
\* assertion on it.
buildSubscriptIndexReference(params, accessorKind) ==
  buildArgumentForwardingExpr(indexParamsOf(params, accessorKind))

\* A subscript (or, to take the fast path of line 103, a variable), the
\* accessor kind, and whether the compiler was built with assertions.
InitIndex ==
  /\ RefOthers
  /\ \E n \in 0..MaxParams :
     \E ps \in [1..n -> {q \in InitParams : ~(q.variadic /\ q.inout)}],
        accessorKind \in AccessorKinds, isSubscript \in BOOLEAN,
        asserts \in BOOLEAN :
       /\ ~isSubscript => n = 0
       /\ aux = [mode |-> "index", isSubscript |-> isSubscript,
                 indices |-> NamedIndices(ps),
                 accessorKind |-> accessorKind, asserts |-> asserts,
                 pc |-> "declared", params |-> << >>,
                 result |-> NullExpr, aborted |-> FALSE]

\* create{Getter,Setter,MaterializeForSet}Prototype: the parameter list
\* after self.
IndexCreatePrototype ==
  /\ aux.mode = "index" /\ aux.pc = "declared"
  /\ aux' = [aux EXCEPT !.pc = "prototype",
                         !.params = buildIndexForwardingParamList(
                                      aux.isSubscript, aux.indices,
                                      accessorPrefix(aux.accessorKind))]
  /\ AuxFrame

\* buildSubscriptIndexReference(ctx, accessor), called for a subscript by
\* buildStorageReference (line 539).  A null result fails the assertion of
\* line 448 in a build with assertions and is returned in one without.
IndexBuildReference ==
  /\ aux.mode = "index" /\ aux.pc = "prototype" /\ aux.isSubscript
  /\ LET result == buildSubscriptIndexReference(aux.params,
                                                aux.accessorKind)
     IN aux' = [aux EXCEPT !.pc = "referenced",
                           !.result = result,
                           !.aborted = (result = NullExpr /\ aux.asserts)]
  /\ AuxFrame

NextIndex == IndexCreatePrototype \/ IndexBuildReference
SpecIndex == InitIndex /\ [][NextIndex]_vars

\* ================================================================ claims
\* Observations shared by the claims about Spec.
HasGetter == var.getter.kind # "none"
HasSetter == var.setter.kind # "none"
HasMaterializeForSet == var.materializeForSet.kind # "none"
\* The declarations of var's scope: the member list of its type or
\* extension, or the derived declarations of its file.
Scope == members \o derived
\* No call is in progress and the process is alive.
AtRest == stack = << >> /\ ~crashed
\* The accessors of var were created by synthesis, not written by the user.
SynthesizedAccessors == HasGetter /\ var.getter.implicit

\* C1 (as claimed): once accessor synthesis was invoked twice on a variable
\* that gets accessors (maybeAddAccessorsToVariable twice and, for a lazy
\* variable, completeLazyVarImplementation twice), the scope holds exactly
\* one getter, at most one setter and, for a lazy variable, exactly one
\* hidden backing entity.
C1_SynthesisTwiceYieldsOneSet ==
  ( /\ stack = << >>
    /\ requests >= 2
    /\ SynthesizedAccessors
    /\ var.lazy => lazyCalls >= 2 )
  => /\ Count("getter", Scope) = 1
     /\ Count("setter", Scope) <= 1
     /\ var.lazy => Count("storage", Scope) = 1

\* C2: a request that finds the in-progress flag set returns at once (line
\* 1303): it creates no declaration, adds no member, registers nothing and
\* leaves the variable, its accessors and its flag as they are.
C2_RequestDuringSynthesisReturns ==
  [][ (Running("entry") /\ var.beingTypeChecked)
      => /\ var' = var
         /\ members' = members /\ derived' = derived /\ backing' = backing
         /\ externals' = externals /\ diags' = diags
         /\ stack' = Pop
         /\ lastExit' = 1303 ]_vars

\* C2 witness: a recursive request arrived while the flag was set and no
\* getter existed yet, and has returned at line 1303 into the outer call.
C2_Witness ==
  /\ lastExit = 1303
  /\ var.beingTypeChecked
  /\ ~HasGetter
  /\ Len(stack) = 1

\* The variables maybeAddAccessorsToVariable passes over without
\* synthesizing (lines 1306-1368).
SkippedByRequest(v) ==
  \/ isLocalContext(v.ctx)
  \/ /\ ~v.lazy
     /\ \/ v.implicit
        \/ v.ctx.kind = "file" /\ v.ctx.fixed
        \/ v.ctx.kind = "protocol"
        \/ v.ctx.kind = "struct" /\ v.ctx.clang
        \/ v.ctx.sil /\ ~(v.ctx.kind = "class" /\ v.nsmanaged)

C3_RequestOnStored ==
  Running("entry") /\ var.declared = "Stored" /\ ~AlreadyHandled(var)

\* A call of maybeAddAccessorsToVariable that synthesized accessors for a
\* stored entity returns (line 1332, 1356 or 1374).
C3_SynthesisReturns ==
  /\ stack # << >> /\ ~crashed
  /\ Top.fn = "maybeAddAccessorsToVariable"
  /\ stack' = Pop
  /\ lastExit' \in {1332, 1356, 1374}
  /\ var.declared = "Stored"

C4_PolymorphicAsClaimed(v) ==
  \/ v.ctx.kind = "protocol" /\ ~v.ctx.objc /\ ~v.ctx.ext
  \/ v.ctx.kind = "class" /\ ~v.final
  \/ v.overridden = "withMFS"

\* C4 (as claimed): an entity has a materializeForSet only if it has a
\* setter, lives in a type and its context is polymorphic; and once
\* maybeAddMaterializeForSet has run it has one exactly in that case.
C4_MaterializeIffPolymorphic ==
  /\ [](AtRest /\ HasMaterializeForSet =>
          HasSetter /\ isTypeContext(var.ctx) /\ C4_PolymorphicAsClaimed(var))
  /\ [][MaybeAddMaterializeForSet =>
          (HasMaterializeForSet' <=>
             (HasSetter /\ isTypeContext(var.ctx)
                /\ C4_PolymorphicAsClaimed(var)))]_vars

\* The contexts in which maybeAddMaterializeForSet adds the accessor.
C4_PolymorphicInCode(v) ==
  \/ v.ctx.kind = "protocol" /\ ~v.ctx.objc /\ ~v.ctx.ext
  \/ v.ctx.kind = "class" /\ (~v.final \/ v.overridden = "withMFS")
  \/ v.ctx.kind = "struct" /\ ~v.ctx.clang

\* An entity without a materializeForSet is given one.
C4_Attached == ~HasMaterializeForSet /\ HasMaterializeForSet'

\* The step belongs to a call of synthesizeWitnessAccessorsForStorage.
C4_ByWitness ==
  \/ stack # << >> /\ stack[1].fn = "synthesizeWitnessAccessorsForStorage"
  \/ stack = << >> /\ stack' # << >>
       /\ stack'[1].fn = "synthesizeWitnessAccessorsForStorage"

\* C4 (amended): an entity has a materializeForSet only if it has a setter,
\* and outside a call of synthesizeWitnessAccessorsForStorage one is
\* attached only to an entity of a type or extension; that call attaches
\* one to any storage with accessors and a setter, whatever its scope.
\* maybeAddMaterializeForSet leaves an entity with one exactly when it had
\* one or is valid, has a setter and sits in a non-ObjC protocol (not an
\* extension), in a class as a non-final member or an override of an entity
\* that carries one, or in a struct not imported from Clang;
\* addTrivialAccessorsToStorage gives one to every entity of a type or
\* extension that gets a setter, enums, structs and final members included.
C4_MaterializeInCode ==
  /\ [](HasMaterializeForSet => HasSetter)
  /\ [][(C4_Attached /\ ~C4_ByWitness) => isTypeContext(var.ctx)]_vars
  /\ [][MaybeAddMaterializeForSet =>
          (HasMaterializeForSet' <=>
             \/ HasMaterializeForSet
             \/ (HasSetter /\ ~var.invalid /\ isTypeContext(var.ctx)
                   /\ C4_PolymorphicInCode(var)))]_vars
  /\ [](AtRest /\ HasSetter /\ isTypeContext(var.ctx)
          /\ var.kind \in {"StoredWithTrivialAccessors",
                           "AddressedWithTrivialAccessors"}
          => HasMaterializeForSet)

\* C4 witness: a computed property of a struct has been given a
\* materializeForSet next to its setter.
C4_Witness ==
  /\ AtRest /\ var.ctx.kind = "struct" /\ var.declared = "ComputedRW"
  /\ HasMaterializeForSet
  /\ Count("materializeForSet", members) = 1

\* C10 (as claimed): every entity with synthesized accessors has exactly one
\* getter, and a setter if and only if it is declared mutable (a stored
\* variable that is not a let) or has a mutable addressor.
C10_SetterIffMutable ==
  (AtRest /\ SynthesizedAccessors)
  => /\ Count("getter", Scope) = 1
     /\ HasSetter <=> IF var.declared = "Stored" THEN ~var.isLet
                      ELSE var.mutableAddressor

\* The steps of one write of x over v0 by the setter of a property with
\* both hooks.
C5_Expected(v0, x) ==
  << [ev |-> "load", arg |-> v0, held |-> v0],
     [ev |-> "willSet", arg |-> x, held |-> v0],
     [ev |-> "store", arg |-> x, held |-> x],
     [ev |-> "didSet", arg |-> v0, held |-> x] >>

\* C5: for a property with both hooks the setter reads the old value once
\* and first, calls willSet with x while storage holds v0, stores x, and
\* calls didSet with v0 while storage holds x; the steps taken so far are
\* always a prefix of that sequence and the finished write is all of it.
C5_ObservedWriteOrder ==
  (obs.mode \in {"running", "done"} /\ obs.prop.hasWillSet
     /\ obs.prop.hasDidSet)
  => LET e == C5_Expected(obs.prop.v0, obs.value) IN
     /\ Len(obs.trace) <= 4
     /\ obs.trace = SubSeq(e, 1, Len(obs.trace))
     /\ obs.mode = "done" => obs.trace = e

\* C5 witness: a write of x # v0 through the setter of a property with both
\* hooks has finished, and its didSet was called with v0.
C5_Witness ==
  /\ obs.mode = "done" /\ obs.prop.hasWillSet /\ obs.prop.hasDidSet
  /\ obs.value # obs.prop.v0
  /\ Len(obs.trace) = 4
  /\ obs.trace[4].ev = "didSet" /\ obs.trace[4].arg = obs.prop.v0

\* The reads of the lazy property that are inside the getter, have seen the
\* backing storage empty and have not evaluated the initializer yet.
LzPendingEvaluations ==
  Cardinality({c \in LazyContexts :
                 /\ lz.cx[c].pc # 0 /\ lz.cx[c].sawEmpty
                 /\ lz.cx[c].tmp2 = Nil})

\* C6: with sequential access and no write, the initializer is evaluated by
\* the first read and by no other: once a read has returned it has been
\* evaluated exactly once, the first read saw the storage empty and stored
\* its result, and every read returned the value the storage holds.
C6_SequentialReadsEvaluateOnce ==
  (lz.mode = "run" /\ ~lz.concurrent /\ lz.writes = 0)
  => /\ lz.evals <= 1
     /\ Len(lz.returned) >= 1 =>
          /\ lz.evals = 1
          /\ lz.backing # Nil
          /\ lz.returned[1].sawEmpty
          /\ \A i \in 1..Len(lz.returned) :
               /\ lz.returned[i].value = lz.backing
               /\ i > 1 => ~lz.returned[i].sawEmpty

\* C6 witness: several sequential reads have returned, no write happened,
\* and the initializer has run once.
C6_Witness ==
  /\ lz.mode = "run" /\ ~lz.concurrent /\ lz.writes = 0
  /\ Len(lz.returned) > 1 /\ lz.evals = 1
  /\ LzAllIdle

\* C7: the getter takes no account of other contexts: every read whose load
\* found the storage empty evaluates the initializer, whatever other reads
\* have stored meanwhile, and returns its own result.  (The witness shows
\* the interleaving in which two first reads do so.)
C7_EveryEmptyLoadEvaluates ==
  (lz.mode = "run" /\ lz.concurrent)
  => /\ lz.evals = lz.emptyLoads - LzPendingEvaluations
     /\ \A i \in 1..Len(lz.returned) :
          lz.returned[i].sawEmpty =>
            lz.returned[i].value = lz.returned[i].own

\* C7 witness: two contexts interleaved their first read, both saw the
\* storage empty, the initializer ran twice and they returned different
\* values.
C7_Witness ==
  /\ lz.mode = "run" /\ lz.concurrent
  /\ lz.evals > 1
  /\ \E i, j \in 1..Len(lz.returned) :
       /\ lz.returned[i].ctx # lz.returned[j].ctx
       /\ lz.returned[i].sawEmpty /\ lz.returned[j].sawEmpty
       /\ lz.returned[i].value # lz.returned[j].value

\* The members that contribute a parameter according to C8: stored,
\* non-implicit, and not both constant and initialized inline.
C8_Contributes(m) ==
  /\ m.hasStorage /\ ~m.isStatic /\ ~m.implicit
  /\ ~(m.isLet /\ m.parentInit)

\* C8: the memberwise initializer has one parameter per stored non-implicit
\* member that is not an initialized constant, in declaration order, each
\* carrying the member's name.
C8_MemberwiseParameters ==
  (mw.mode = "created" /\ mw.ICK = "Memberwise")
  => LET ms == mw.decl.members
         ps == mw.ctor.params
         idx == {i \in 1..Len(ms) : C8_Contributes(ms[i])}
     IN /\ Len(ps) = Cardinality(idx)
        /\ \A i \in idx : \E j \in 1..Len(ps) : ps[j].name = ms[i].name
        /\ \A j \in 1..Len(ps) :
             /\ \E i \in idx : ps[j].name = ms[i].name
             /\ ps[j].argName = ps[j].name
        /\ \A j, k \in 1..Len(ps) : j < k => ps[j].name < ps[k].name

\* C8 witness: a memberwise initializer with a parameter for a later member
\* and none for an earlier initialized constant.
C8_Witness ==
  /\ mw.mode = "created" /\ mw.ICK = "Memberwise"
  /\ Len(mw.decl.members) > 1
  /\ mw.decl.members[1].isLet /\ mw.decl.members[1].parentInit
  /\ mw.decl.members[1].hasStorage /\ ~mw.decl.members[1].isStatic
  /\ Len(mw.ctor.params) = 1
  /\ mw.ctor.params[1].name = mw.decl.members[2].name

\* The ancestor initializer has a variadic parameter.
C9_HasVariadic ==
  \E i \in 1..Len(ov.superclassCtor.params) :
    ov.superclassCtor.params[i].variadic

\* The constructor has the stub body.
C9_StubBody ==
  /\ ov.ctor.kind = "constructor" /\ ov.ctor.hasBody /\ ov.ctor.stub
  /\ Len(ov.ctor.body) = 1
  /\ ov.ctor.body[1].callee = "_unimplemented_initializer"

\* The constructor has the chaining body: one call of super.init that
\* forwards every parameter by position, an inout parameter as inout.
C9_ChainingBody ==
  /\ ov.ctor.kind = "constructor" /\ ov.ctor.hasBody /\ ~ov.ctor.stub
  /\ Len(ov.ctor.body) = 1
  /\ ov.ctor.body[1].callee = "super.init"
  /\ LET ps == ov.superclassCtor.params
         ex == ov.ctor.body[1].args
         args == IF ex.e = "tuple" THEN ex.args ELSE <<ex>>
     IN /\ Len(args) = Len(ps)
        /\ \A i \in 1..Len(ps) :
             /\ args[i].e = "declref"
             /\ args[i].param = ps[i].name
             /\ args[i].inout = ps[i].inout

\* C9 (as claimed): whatever is requested, a variadic ancestor initializer
\* gives a Stub body and a diagnostic, a fixed-arity one a Chaining body.
C9_StubIffVariadic ==
  ov.mode = "created"
  => IF C9_HasVariadic
     THEN C9_StubBody /\ ov.diags # << >>
     ELSE C9_ChainingBody

\* C9 (amended): when a Chaining body is requested and neither the class
\* nor the ancestor initializer is generic: a variadic parameter gives the
\* two diagnostics and, if the runtime hook exists, the Stub body (without
\* the hook a third diagnostic and no body); fixed-arity parameters give no
\* diagnostic and the Chaining body.  A requested Stub is a Stub without
\* those diagnostics, whatever the parameters.
C9_ChainingRequested ==
  (ov.mode = "created" /\ ~ov.classDecl.generic /\ ~ov.superclassCtor.generic)
  => /\ (ov.requested = "Chaining" /\ C9_HasVariadic) =>
          /\ Len(ov.diags) >= 2
          /\ ov.diags[1] = "unsupported_synthesize_init_variadic"
          /\ ov.diags[2] = "variadic_superclass_init_here"
          /\ IF ov.hook THEN C9_StubBody /\ Len(ov.diags) = 2
             ELSE ~ov.ctor.hasBody /\ Len(ov.diags) = 3
     /\ (ov.requested = "Chaining" /\ ~C9_HasVariadic) =>
          C9_ChainingBody /\ ov.diags = << >>
     /\ ov.requested = "Stub" =>
          IF ov.hook THEN C9_StubBody /\ ov.diags = << >>
          ELSE ~ov.ctor.hasBody
               /\ ov.diags = <<"missing_unimplemented_init_runtime">>

\* C9 witness: a Chaining body was requested for an initializer with a
\* variadic parameter after a fixed one and a Stub with diagnostics came
\* out.
C9_Witness ==
  /\ ov.mode = "created" /\ ov.requested = "Chaining"
  /\ Len(ov.superclassCtor.params) = 2
  /\ ~ov.superclassCtor.params[1].variadic
  /\ ov.superclassCtor.params[2].variadic
  /\ C9_StubBody /\ Len(ov.diags) = 2

C12_StorageIsMember == backing # << >> /\ Count("storage", Scope) > 0

\* A backing entity is private, not user-accessible and, in a class, final.
C12_Hidden(st) ==
  /\ st.access = "private" /\ st.setterAccess = "private"
  /\ ~st.userAccessible
  /\ isClassOrClassExtensionContext(st.ctx) => st.final

\* A backing entity is hidden as above and marked implicit (line 1237).
C12_HiddenImplicit(st) == C12_Hidden(st) /\ st.implicit

\* A call of completeLazyVarImplementation is between line 1203, where the
\* storage joins the scope, and lines 1235-1239, where it gets its
\* attributes.
C12_BeforeAttributes ==
  /\ stack # << >>
  /\ stack[1].pc \in {"lazyimpl_validateGetter", "lazyimpl_validateSetter"}

\* A call of completeLazyVarImplementation is past line 1239, in the type
\* checker at lines 1241-1245.
C12_AfterAttributes ==
  stack # << >> /\ stack[1].pc = "lazyimpl_typeCheck"

\* C12 (as claimed): in every state in which the backing entity is a member
\* of the owning scope, the states inside completeLazyVarImplementation
\* included, it is private, not user-accessible and final in a class.
C12_BackingAlwaysHidden ==
  C12_StorageIsMember => \A i \in 1..Len(backing) : C12_Hidden(backing[i])

\* C12 (amended): a backing entity is never user-accessible.  While a call
\* of completeLazyVarImplementation is between line 1203 and lines
\* 1235-1239 (the accessors are validated and get their bodies) the entity
\* it created is a member of the scope and not private.  In every other
\* state, the rest of that call (the type checking at lines 1241-1245)
\* included, every backing entity is private, implicit and, in a class,
\* final.
C12_BackingHiddenAtRest ==
  /\ \A i \in 1..Len(backing) : ~backing[i].userAccessible
  /\ ~C12_BeforeAttributes =>
       \A i \in 1..Len(backing) : C12_HiddenImplicit(backing[i])
  /\ C12_BeforeAttributes =>
       (C12_StorageIsMember /\ backing[Len(backing)].access # "private"
          /\ ~backing[Len(backing)].implicit)

\* C12 witness: completeLazyVarImplementation is in the type checker at
\* lines 1241-1245 on a lazy property of a class, whose backing entity is
\* a member and already private, implicit and final.
C12_Witness ==
  /\ ~crashed /\ C12_AfterAttributes /\ var.ctx.kind = "class"
  /\ C12_StorageIsMember
  /\ backing[1].final /\ backing[1].access = "private"
  /\ backing[1].implicit

\* C13: the setter of a lazy property stores the incoming value into the
\* backing storage and evaluates nothing: after a write of v the storage
\* holds v at once, the initializer is not evaluated by the write nor by any
\* later read, and every read after the write returns v without having seen
\* the storage empty, whether or not a read came before the write.
C13_WriteThenRead ==
  (lz.mode = "run" /\ ~lz.concurrent /\ lz.written # Nil)
  => /\ lz.backing = lz.written
     /\ lz.evals = lz.evalsAtWrite
     /\ \A i \in 1..Len(lz.returned) :
          i > lz.readsAtWrite =>
            /\ lz.returned[i].value = lz.written
            /\ ~lz.returned[i].sawEmpty

\* C13 witness: the property was written before it was ever read, then read:
\* the read returned the written value and the initializer never ran.
C13_Witness ==
  /\ lz.mode = "run" /\ ~lz.concurrent /\ lz.written # Nil
  /\ lz.readsAtWrite = 0 /\ Len(lz.returned) > 0
  /\ lz.returned[1].value = lz.written
  /\ lz.evals = 0

\* The ranks of the access levels of the members that contribute a
\* parameter to the memberwise initializer.
C14_ContributingRanks ==
  { AccessRank(mw.decl.members[i].access) :
      i \in {j \in 1..Len(mw.decl.members) :
               C8_Contributes(mw.decl.members[j])} }

\* The least element of a non-empty set of ranks.
C14_Least(S) == CHOOSE x \in S : \A y \in S : x <= y

\* C14 (as claimed): the access level of the memberwise initializer is the
\* minimum over the declaring type and the contributing members.
C14_AccessIsMinimum ==
  (mw.mode = "created" /\ mw.ICK = "Memberwise")
  => AccessRank(mw.ctor.access) =
       C14_Least({AccessRank(mw.decl.access)} \cup C14_ContributingRanks)

\* C14 (amended): the access level of the memberwise initializer is the
\* minimum over the declaring type, the contributing members and, unless
\* the type is imported from Clang, internal; skipped members do not
\* contribute.
C14_AccessIsCappedMinimum ==
  (mw.mode = "created" /\ mw.ICK = "Memberwise")
  => AccessRank(mw.ctor.access) =
       C14_Least({AccessRank(mw.decl.access)} \cup C14_ContributingRanks
                 \cup (IF mw.decl.clang THEN {}
                       ELSE {AccessRank("internal")}))

\* C14 witness: a public struct that is not imported, with a public member
\* that contributes and a private one that is skipped, got an internal
\* memberwise initializer.
C14_Witness ==
  /\ mw.mode = "created" /\ mw.ICK = "Memberwise"
  /\ mw.decl.access = "public" /\ ~mw.decl.clang
  /\ Len(mw.decl.members) = 2
  /\ C8_Contributes(mw.decl.members[1])
  /\ mw.decl.members[1].access = "public"
  /\ ~C8_Contributes(mw.decl.members[2])
  /\ mw.decl.members[2].access = "private"
  /\ mw.ctor.access = "internal"

\* ---------------------------------------------------------------- C15
\* The case in which the reference goes through super.
C15_SuperCase == aux.selfAccessKind = "Super" /\ aux.hasSelf /\ aux.overridden

\* C15: buildStorageReference yields a super-qualified reference to the
\* overridden (ancestor) entity with Ordinary semantics exactly when Super
\* was requested, the accessor has a self parameter and the entity overrides
\* another.  Otherwise the reference is to the entity itself with the
\* requested semantics: through plain self when there is a self parameter,
\* a bare declaration reference when there is none.
C15_SuperOnlyWhenOverriding ==
  (aux.mode = "ref" /\ aux.built) =>
    /\ aux.result.target = aux.target
    /\ IF C15_SuperCase
       THEN /\ aux.result.base = "super"
            /\ aux.result.ancestor
            /\ aux.result.semantics = "Ordinary"
       ELSE /\ aux.result.ancestor = FALSE
            /\ aux.result.semantics = aux.semantics
            /\ aux.result.base = IF aux.hasSelf THEN "self" ELSE "none"
            /\ ~aux.hasSelf => aux.result.form = "declref"

\* Super was requested with a self parameter for an entity that overrides
\* nothing and a direct-to-storage access: a Peer reference was built.
C15_Witness ==
  /\ aux.mode = "ref" /\ aux.built
  /\ aux.selfAccessKind = "Super" /\ aux.hasSelf /\ ~aux.overridden
  /\ aux.semantics = "DirectToStorage"
  /\ aux.result.base = "self" /\ aux.result.semantics = "DirectToStorage"

\* ---------------------------------------------------------------- C16
C16_Destructors(CD) ==
  {i \in 1..Len(CD.members) : CD.members[i].kind = "destructor"}

\* A step in which a call of addImplicitDestructor returns.
C16_Returns == aux.mode = "dtor" /\ aux'.returned = aux.returned + 1

C17_SynthesizedBody(acc) ==
  acc.kind # "none" /\ acc.implicit /\ acc.hasBody

\* C17 (as claimed): synthesis skips a variable marked invalid.  None of its
\* synthesized accessors gets a body, no hidden storage is added for it and
\* no diagnostic is emitted.
C17_InvalidSubjectSkipped ==
  (var # NoDecl /\ var.invalid) =>
    /\ ~C17_SynthesizedBody(var.getter)
    /\ ~C17_SynthesizedBody(var.setter)
    /\ ~C17_SynthesizedBody(var.materializeForSet)
    /\ backing = << >>
    /\ diags = << >>

\* ---------------------------------------------------------------- C18
C18_Generic == ov.superclassCtor.generic \/ ov.classDecl.generic

\* C18: when the superclass initializer is generic or the class is in a
\* generic context, createDesignatedInitOverride returns null: it builds no
\* constructor, emits no diagnostic and leaves the class, the superclass
\* initializer and all other state as they were.
C18_GenericNotSynthesized ==
  [][(ov.mode = "declared" /\ ov'.mode = "created" /\ C18_Generic) =>
       /\ ov'.ctor = NoDecl
       /\ ov'.diags = << >>
       /\ ov'.classDecl = ov.classDecl
       /\ ov'.superclassCtor = ov.superclassCtor
       /\ ov'.hook = ov.hook
       /\ UNCHANGED <<var, members, derived, backing, externals, diags,
                      stack, lastExit, requests, lazyCalls, crashed,
                      obs, lz, mw, aux>>]_vars

\* A stub was requested for a non-generic initializer of a generic class,
\* with the runtime hook missing: nothing was returned or diagnosed.
C18_Witness ==
  /\ ov.mode = "created" /\ ov.requested = "Stub"
  /\ ov.classDecl.generic /\ ~ov.superclassCtor.generic /\ ~ov.hook
  /\ ov.ctor = NoDecl /\ ov.diags = << >>

\* ---------------------------------------------------------------- C19
\* createStubBody ran: a stub was requested, or chaining met a variadic
\* parameter, for an initializer that is not generic.
C19_StubBodyRequested ==
  /\ ov.mode = "created" /\ ~C18_Generic
  /\ \/ ov.requested = "Stub"
     \/ \E i \in 1..Len(ov.superclassCtor.params) :
          ov.superclassCtor.params[i].variadic

C19_HookDiagnostics ==
  {i \in 1..Len(ov.diags) : ov.diags[i] = "missing_unimplemented_init_runtime"}

\* C19: when the _unimplemented_initializer hook cannot be found,
\* createStubBody emits one diagnostic at the location of the class, sets
\* no body and does not mark the constructor as a stub implementation, and
\* createDesignatedInitOverride returns the constructor all the same.
C19_MissingHookDiagnosed ==
  (C19_StubBodyRequested /\ ~ov.hook) =>
    /\ ov.ctor.kind = "constructor"
    /\ ~ov.ctor.hasBody /\ ov.ctor.body = << >>
    /\ ~ov.ctor.stub
    /\ Cardinality(C19_HookDiagnostics) = 1
    /\ ov.diags[Len(ov.diags)] = "missing_unimplemented_init_runtime"
    /\ diagnosticLocation(ov.diags[Len(ov.diags)]) = "classDecl"
    /\ ov.requested = "Stub" => Len(ov.diags) = 1

\* A stub was requested for a non-generic initializer while the hook is
\* missing: the constructor came back without a body, with one diagnostic.
C19_Witness ==
  /\ C19_StubBodyRequested /\ ~ov.hook /\ ov.requested = "Stub"
  /\ ov.ctor.kind = "constructor" /\ ~ov.ctor.hasBody
  /\ ov.diags = <<"missing_unimplemented_init_runtime">>

\* ---------------------------------------------------------------- C20
\* The setter of an @NSCopying property was synthesized / was called.
C20_Synthesized ==
  aux.mode = "copy" /\ aux.property.nscopying /\ aux.setter.hasBody
C20_Called == aux.calls = 1
\* NSCopying was found and the object type of the property conforms to it.
C20_Conforms == getNSCopyingProtocol(aux.env) /\ aux.property.conforms
\* What was stored is a copy of the incoming object (nil for nil).
C20_StoredCopy ==
  /\ ~aux.trapped
  /\ IF aux.incoming = NilObject THEN aux.stored = NilObject
     ELSE aux.stored.copyOf = aux.incoming.id /\ aux.stored # aux.incoming
C20_StoredUnmodified == ~aux.trapped /\ aux.stored = aux.incoming

\* C20 (as claimed): without conformance, or without the protocol, one
\* diagnostic is emitted and the setter stores the incoming value
\* unmodified; with conformance no diagnostic is emitted and the setter
\* stores the result of the copy call.
C20_CopyOrFallback ==
  C20_Synthesized =>
    IF ~C20_Conforms
    THEN Len(aux.diags) = 1 /\ (C20_Called => C20_StoredUnmodified)
    ELSE aux.diags = << >> /\ (C20_Called => C20_StoredCopy)

\* C20 (amended): as claimed without conformance.  With conformance no
\* diagnostic is emitted and the setter stores the copy cast to the type of
\* the property: the copy when it has that type; for an optional property
\* nil when the incoming value is nil or the copy has another type; for a
\* non-optional property a copy of another type makes the forced cast trap
\* and nothing is stored.
C20_CopyCastOrFallback ==
  C20_Synthesized =>
    IF ~C20_Conforms
    THEN /\ aux.diags = <<"nscopying_doesnt_conform">>
         /\ C20_Called => C20_StoredUnmodified
    ELSE /\ aux.diags = << >>
         /\ C20_Called =>
              IF aux.incoming = NilObject \/ aux.copyType = "T"
              THEN C20_StoredCopy
              ELSE IF aux.property.optional
                   THEN ~aux.trapped /\ aux.stored = NilObject
                   ELSE aux.trapped /\ aux.stored = NilObject

\* The setter of a conforming optional property was called with an object
\* and stored its copy; no diagnostic was emitted.
C20_Witness ==
  /\ C20_Synthesized /\ C20_Called /\ C20_Conforms /\ aux.property.optional
  /\ aux.incoming = Object(1) /\ aux.stored.copyOf = 1
  /\ aux.stored.type = "T" /\ aux.diags = << >>

\* ---------------------------------------------------------------- C21
\* A step of a call of maybeAddAccessorsToVariable that stays in the call.
C21_InCall ==
  /\ stack # << >> /\ Len(stack') = Len(stack)
  /\ stack[Len(stack)].fn = "maybeAddAccessorsToVariable"
\* The step builds the first accessor skeleton of the call (the getter).
C21_FirstSkeleton ==
  /\ C21_InCall
  /\ stack[Len(stack)].getter = NoDecl
  /\ stack'[Len(stack')].getter # NoDecl
\* The step of a call that clears the in-progress flag.
C21_FlagCleared ==
  /\ stack # << >> /\ var.beingTypeChecked /\ ~var'.beingTypeChecked
\* The accessors the variable has after the step all have a body.
C21_BodiesFilled ==
  /\ var'.getter.kind # "none" /\ var'.getter.hasBody
  /\ var'.setter.kind # "none" => var'.setter.hasBody

\* C21 (as claimed): on every synthesis path of maybeAddAccessorsToVariable
\* the flag is set before the first skeleton is built, and it is cleared
\* only after the bodies of the accessors have been filled.
C21_FlagCoversBodies ==
  [][/\ C21_FirstSkeleton => var.beingTypeChecked
     /\ C21_FlagCleared => C21_BodiesFilled]_vars

\* C21 (amended): the flag is set before the first skeleton is built and is
\* cleared after the accessors were installed on the variable.  Only the
\* trivial path (cleared at line 1373) has filled bodies by then: the
\* getter's, and the setter's unless the variable is invalid.  The lazy
\* path clears the flag at line 1325 with both bodies empty (they are
\* filled by completeLazyVarImplementation, with the flag clear), and the
\* NSManaged path at line 1355 with bodies that are never filled.
C21_FlagCoversSkeletons ==
  [][/\ C21_FirstSkeleton => var.beingTypeChecked
     /\ C21_FlagCleared =>
          /\ var'.getter.kind # "none"
          /\ IF var.lazy \/ var.nsmanaged
             THEN /\ ~var'.getter.hasBody
                  /\ var'.setter.kind # "none" /\ ~var'.setter.hasBody
             ELSE /\ var'.getter.hasBody
                  /\ var'.setter.kind # "none" =>
                       (var'.setter.hasBody <=> ~var.invalid)
     /\ (var.lazy /\ var.getter.kind # "none"
           /\ ~var.getter.hasBody /\ var'.getter.hasBody) =>
          ~var.beingTypeChecked]_vars

\* A lazy variable at rest after maybeAddAccessorsToVariable returned at
\* line 1332: flag clear, accessors installed, no body filled yet.
C21_Witness ==
  /\ AtRest /\ lastExit = 1332 /\ var.lazy
  /\ ~var.beingTypeChecked /\ HasGetter /\ HasSetter
  /\ ~var.getter.hasBody /\ ~var.setter.hasBody

\* ---------------------------------------------------------------- C22
C22_Variadic ==
  \E i \in 1..Len(aux.indices) : aux.indices[i].variadic

\* C22 (as claimed): forwarding a parameter list with a variadic parameter
\* yields none for the caller and never aborts the compiler; here for the
\* index reference of a subscript accessor.
C22_VariadicPropagatesNone ==
  (aux.mode = "index" /\ aux.pc = "referenced" /\ C22_Variadic) =>
    aux.result = NullExpr /\ ~aux.aborted

\* ---------------------------------------------------------------- C23
\* The parameters the index reference refers to, in order.
C23_Referenced ==
  IF aux.result.e = "tuple"
  THEN [i \in 1..Len(aux.result.args) |-> aux.result.args[i].param]
  ELSE << aux.result.param >>

C23_Extra ==
  CASE aux.accessorKind = "Getter" -> 0
    [] aux.accessorKind = "Setter" -> 1
    [] aux.accessorKind = "MaterializeForSet" -> 2

\* C23: the prototype of a subscript accessor places 0 (getter), 1 (setter:
\* value) or 2 (materializeForSet: buffer, callbackStorage) parameters before
\* the cloned indices, buildSubscriptIndexReference strips exactly that
\* many, and the reference it builds names exactly the indices, all of them
\* and in their order.
C23_IndicesForwardedInOrder ==
  /\ (aux.mode = "index" /\ aux.pc # "declared" /\ aux.isSubscript) =>
       /\ Len(aux.params) = C23_Extra + Len(aux.indices)
       /\ \A i \in 1..Len(aux.indices) :
            /\ aux.params[C23_Extra + i].name = aux.indices[i].name
            /\ aux.params[C23_Extra + i].implicit
       /\ \A i \in 1..C23_Extra :
            aux.params[i].name \in {"value", "buffer", "callbackStorage"}
  /\ (aux.mode = "index" /\ aux.pc = "referenced"
        /\ aux.result # NullExpr) =>
       C23_Referenced = [i \in 1..Len(aux.indices) |-> aux.indices[i].name]

\* The index reference of a materializeForSet accessor of a subscript with
\* two indices was built: it names the two indices, not the buffers.
C23_Witness ==
  /\ aux.mode = "index" /\ aux.pc = "referenced"
  /\ aux.accessorKind = "MaterializeForSet" /\ Len(aux.indices) = 2
  /\ Len(aux.params) = 4 /\ aux.result # NullExpr
  /\ C23_Referenced = <<"i1", "i2">>

\* ---------------------------------------------------------------- C24
\* C24: the materializeForSet of an entity with a setter is mutating exactly
\* when the scope is a protocol or protocol extension, or the setter is
\* neither attributed nonmutating nor declared non-mutating by the entity;
\* in a protocol scope it is mutating even when the setter is non-mutating.
\* It is static exactly when the setter is.
C24_MaterializeMutating ==
  (var # NoDecl /\ HasMaterializeForSet /\ HasSetter) =>
    /\ var.materializeForSet.mutating <=>
         \/ isProtocolOrProtocolExtensionContext(var.ctx)
         \/ (~var.setter.nonMutatingAttr /\ ~var.setterNonMutating)
    /\ isProtocolOrProtocolExtensionContext(var.ctx) =>
         var.materializeForSet.mutating
    /\ var.materializeForSet.static = var.setter.static

\* A property of a protocol scope whose setter is non-mutating has a
\* mutating materializeForSet.
C24_Witness ==
  /\ var # NoDecl /\ HasMaterializeForSet /\ HasSetter
  /\ isProtocolOrProtocolExtensionContext(var.ctx)
  /\ var.setterNonMutating
  /\ var.materializeForSet.mutating

\* ---------------------------------------------------------------- C25
\* The number of times the accessor named D was passed to addExternalDecl.
C25_Registrations(D) ==
  Cardinality({i \in 1..Len(externals) : externals[i] = D})

C25_Expected(acc, D) ==
  (acc.kind # "none" /\ acc.implicit) =>
    C25_Registrations(D) =
      IF needsToBeRegisteredAsExternalDecl(var) THEN 1 ELSE 0

\* C25 (as claimed): once a synthesis request is complete, each synthesized
\* accessor of the variable has been registered as an external declaration
\* exactly once if the variable is imported or is declared in an imported
\* nominal type, and not at all otherwise.
C25_RegisteredExactlyOnce ==
  (var # NoDecl /\ AtRest /\ requests > 0) =>
    /\ C25_Expected(var.getter, "getter")
    /\ C25_Expected(var.setter, "setter")
    /\ C25_Expected(var.materializeForSet, "materializeForSet")

\* ---------------------------------------------------------------- C26
C26_Synthesized == obs.mode \notin {"idle", "declared"}

\* C26 (as claimed): after synthesizeObservingAccessors both hooks of the
\* property, if present, are final in every kind of scope.
C26_HooksFinalEverywhere ==
  C26_Synthesized =>
    /\ obs.prop.hasWillSet => obs.willSetFinal
    /\ obs.prop.hasDidSet => obs.didSetFinal

\* C26 (amended): after synthesizeObservingAccessors the hooks that are
\* present are final when the property is declared in a class or class
\* extension; in any other scope their finality is what it was before.
C26_HooksFinalInClass ==
  C26_Synthesized =>
    /\ obs.prop.hasWillSet =>
         obs.willSetFinal = (obs.prop.scope = "class" \/ obs.prop.hooksFinal)
    /\ obs.prop.hasDidSet =>
         obs.didSetFinal = (obs.prop.scope = "class" \/ obs.prop.hooksFinal)
    /\ (obs.prop.scope = "class" /\ obs.prop.hasWillSet) => obs.willSetFinal
    /\ (obs.prop.scope = "class" /\ obs.prop.hasDidSet) => obs.didSetFinal

\* A property of a class with both hooks, neither final before: both are
\* final after synthesis.
C26_Witness ==
  /\ C26_Synthesized /\ obs.prop.scope = "class"
  /\ obs.prop.hasWillSet /\ obs.prop.hasDidSet /\ ~obs.prop.hooksFinal
  /\ obs.willSetFinal /\ obs.didSetFinal

\* ---------------------------------------------------------------- C27
\* Every member named D stands right after a member named Hint.
C27_Adjacent(D, Hint) ==
  \A i \in 1..Len(members) :
    members[i] = D => (i > 1 /\ members[i - 1] = Hint)

\* C27 (as claimed): a declaration inserted with a hint ends up adjacent to
\* the hint in the member list: the backing storage of a lazy property right
\* after the property, a materializeForSet right after the setter of the
\* entity, whatever other members there are.
C27_InsertedNextToHint ==
  /\ C27_Adjacent("storage", "var")
  /\ (var # NoDecl /\ HasSetter) => C27_Adjacent("materializeForSet", "setter")

\* ---------------------------------------------------------------- C28
\* C28: createImplicitConstructor returns a constructor that has been
\* type-checked, and leaves the struct or class as it was: the constructor
\* is not among its members.
C28_ConstructorNotAdded ==
  [][(mw.mode = "declared" /\ mw'.mode = "created") =>
       /\ mw'.ctor.kind = "constructor" /\ mw'.ctor.typeChecked
       /\ mw'.decl.members = mw.decl.members
       /\ mw'.decl = mw.decl
       /\ UNCHANGED <<members, derived>>]_vars

\* A constructor was created for a struct with two members, which are
\* still its only members.
C28_Witness ==
  /\ mw.mode = "created" /\ mw.ctor.kind = "constructor"
  /\ mw.ctor.typeChecked /\ Len(mw.decl.members) = 2
  /\ \A i \in 1..2 : mw.decl.members[i].name = i

\* ---------------------------------------------------------------- C29
\* C29: the memberwise initializer has a body that assigns each parameter
\* to the stored entity of its name, in parameter order.
C29_BodyAssignsParameters ==
  (mw.mode = "created" /\ mw.ICK = "Memberwise") =>
    /\ mw.ctor.hasBody
    /\ Len(mw.ctor.body) = Len(mw.ctor.params)
    /\ \A j \in 1..Len(mw.ctor.params) :
         /\ mw.ctor.body[j].op = "assign"
         /\ mw.ctor.body[j].dest = mw.ctor.params[j].name
         /\ mw.ctor.body[j].src = mw.ctor.params[j].name

\* ---------------------------------------------------------------- C30
\* The step is the return of a call of maybeAddAccessorsToVariable at one
\* of its early exits.
C30_EarlyReturn ==
  /\ stack # << >> /\ stack[Len(stack)].pc = "entry"
  /\ Len(stack') = Len(stack) - 1

\* No frame of the call stack is a call of maybeAddAccessorsToVariable.
C30_NoCallInProgress ==
  \A i \in 1..Len(stack) : stack[i].fn # "maybeAddAccessorsToVariable"

\* C30: while no call of maybeAddAccessorsToVariable is in progress the
\* in-progress flag of the variable is clear, and a call that returns early
\* (lines 1303, 1307, 1337, 1343, 1348, 1362, 1368) leaves the flag as it
\* found it.
C30_FlagClearAtRest ==
  /\ []((var # NoDecl /\ C30_NoCallInProgress) => ~var.beingTypeChecked)
  /\ [][C30_EarlyReturn =>
          /\ lastExit' \in EarlyExits
          /\ var'.beingTypeChecked = var.beingTypeChecked]_vars

\* A call on a variable that got trivial accessors has returned at line
\* 1374: the flag, set during the call, is clear again.
C30_Witness ==
  /\ var # NoDecl /\ stack = << >> /\ lastExit = 1374
  /\ HasGetter /\ var.getter.implicit /\ ~var.beingTypeChecked

====
